---- MODULE Spec2Model ----
(***************************************************************************)
(* A model of the blocked Bloom filter package blobloom: the Filter        *)
(* (bloomfilter.go), the SyncFilter (sync.go) and the set operations.      *)
(*                                                                         *)
(* Representation.  TLC's integers are 32-bit signed, so a Go uint32 is    *)
(* kept as a pair <<hi, lo>> of 16-bit limbs (value hi * 2^16 + lo) and a  *)
(* uint64 hash as four 16-bit limbs, most significant first.  A 32-bit     *)
(* word of a block is the set of its set bit numbers (0 = least            *)
(* significant), so that | is \cup, & is \cap and 1 << j is {j}.  A block  *)
(* is a function from word index 0..15 to words, a slice of blocks is a    *)
(* function from 0..n-1 to blocks.                                         *)
(***************************************************************************)
EXTENDS Integers, Sequences, FiniteSets, TLC

\* The sequential program: two filters "f" and "g".
\*   fl      the two filters, each a record [b: blocks, k: hash count]
\*   added   per filter, the hashes passed to Add/AddAtomic on it since its
\*           last Clear or Intersect
\*   op      the last call: its name, its receiver x, its hash argument h
\*           (of Add, AddAtomic and Has) and its result ret: "true" or
\*           "false" from Has, "panic" or "ok" from Union and Intersect
VARIABLES fl, added, op

\* The concurrent program: goroutines that call Add and Has on one shared
\* filter, each call a sequence of atomic steps.
\*   cf     the shared filter
\*   impl   the type in use: "Filter" (AddAtomic and Has) or "SyncFilter"
\*          (Add and Has)
\*   th     per goroutine, its call: pc ("idle" when it has returned), op,
\*          hash h, iteration j (1 .. k-1), the word old that setbitAtomic
\*          loaded, the block as it was when a Filter.Has began (snap),
\*          whether an Add of h had returned when a Has began (must), and
\*          the result res
\*   done   the hashes whose Add has returned
\*   calls  the number of calls begun
\*   lin    the linearizations the history so far admits (see Linearize)
VARIABLES cf, impl, th, done, calls, lin

\* One call of a function of the package on its own (New, Optimize, Write,
\* Read, Fill, ...): the function fn ("none" before the call), its
\* arguments in and its results out.
VARIABLE call

\* ------------------------------------------------------------------------
\* Program constants.

BlockBits == 512

wordSize == 32

blockWords == BlockBits \div wordSize

\* 2^16, the limb base of the uint32 representation.
W16 == 256 * 256

\* ------------------------------------------------------------------------
\* Bounds of the model.

\* The largest number of blocks of a filter in the sequential specification.
MaxBlocks == 3

\* The largest hash count k a filter is constructed with.
MaxK == 3

\* The number of goroutines of the concurrent specifications.
NThreads == 2

\* The number of calls the goroutines make in all.
MaxCalls == 3

Threads == 1 .. NThreads

\* ------------------------------------------------------------------------
\* uint32 arithmetic on 16-bit limbs.

\* uint32(i) for a non-negative int i below 2^31.
u32(i) == <<(i \div W16) % W16, i % W16>>

\* a + b on uint32, wrapping around at 2^32.
add32(a, b) ==
  LET lo == a[2] + b[2]
  IN  <<(a[1] + b[1] + lo \div W16) % W16, lo % W16>>

\* The 32-bit product of two 16-bit numbers, as a uint32 pair.  The second
\* factor is split into bytes to keep every intermediate below 2^31.
mul16(x, y) ==
  LET p == x * (y % 256)
      q == x * (y \div 256)
      t == (q % 256) * 256 + p
  IN  <<q \div 256 + t \div W16, t % W16>>

\* uint32(h >> 32) and uint32(h) of a 64-bit hash h.
hi32(h) == <<h[1], h[2]>>

lo32(h) == <<h[3], h[4]>>

\* doublehash generates the hash values to use in iteration i of enhanced
\* double hashing from the values h1, h2 of the previous iteration.
doublehash(h1, h2, i) == <<add32(h1, h2), add32(h2, u32(i))>>

\* reducerange: uint32((uint64(i) * uint64(n)) >> 32), computed by
\* schoolbook multiplication of the limbs; the result is a uint32 pair.
reducerange32(i, n) ==
  LET ll == mul16(i[2], n[2])
      lh == mul16(i[2], n[1])
      hl == mul16(i[1], n[2])
      hh == mul16(i[1], n[1])
      s1 == ll[1] + lh[2] + hl[2]
      s2 == lh[1] + hl[1] + hh[2] + s1 \div W16
  IN  <<(hh[1] + s2 \div W16) % W16, s2 % W16>>

\* reducerange with the result as an index (the index is below n).
reducerange(i, n) ==
  LET r == reducerange32(i, n) IN r[1] * W16 + r[2]

\* ------------------------------------------------------------------------
\* Blocks.

ZeroBlock == [w \in 0 .. blockWords - 1 |-> {}]

\* The word index (i/wordSize)%n and the bit number i%wordSize of bit i.
\* Both depend only on the low limb, 2^16 being a multiple of BlockBits.
wordOf(i) == (i[2] \div wordSize) % blockWords

bitOf(i) == i[2] % wordSize

\* getbit reports whether bit (i modulo BlockBits) is set.
getbit(b, i) == ({bitOf(i)} \cap b[wordOf(i)]) # {}

\* setbit with ^= written for |=: the bit is flipped.
setbitFlips(b, i) ==
  [b EXCEPT ![wordOf(i)] = (@ \ {bitOf(i)}) \cup ({bitOf(i)} \ @)]

\* setbit sets bit (i modulo BlockBits) of b.
setbit(b, i) == [b EXCEPT ![wordOf(i)] = @ \cup {bitOf(i)}]

\* The number of blocks of a slice of blocks.
len(b) == Cardinality(DOMAIN b)

\* ------------------------------------------------------------------------
\* Filter.

\* New constructs a Bloom filter with given numbers of bits and hash
\* functions.  nbits is an int far below MaxBits = BlockBits << 32 here, so
\* the panic of line 222 is not reachable with these requests.
New(nbits, nhashes) ==
  LET n1 == IF nbits < 1 THEN BlockBits ELSE nbits
      k1 == IF nhashes < 2 THEN 2 ELSE nhashes
      n2 == IF n1 % BlockBits # 0 THEN n1 + (BlockBits - (n1 % BlockBits)) ELSE n1
  IN  [b |-> [j \in 0 .. (n2 \div BlockBits) - 1 |-> ZeroBlock], k |-> k1]

\* The sequence of <<h1, h2>> pairs that the loop "for i := from; i+1 < k +
\* from; i++ { h1, h2 = doublehash(h1, h2, i); ... }" passes through: entry
\* j (1-based) is the pair after j iterations.
RECURSIVE hashSeq(_, _, _, _)
hashSeq(h1, h2, i, n) ==
  IF n <= 0 THEN <<>>
  ELSE LET d == doublehash(h1, h2, i)
       IN  <<d>> \o hashSeq(d[1], d[2], i + 1, n - 1)

\* The bit indices Filter.Add, AddAtomic and Has use for hash h with hash
\* count k: the loop runs for i = 0 .. k-2.
positions(h, k) ==
  LET s == hashSeq(hi32(h), lo32(h), 0, k - 1)
  IN  [j \in 1 .. Len(s) |-> s[j][1]]

\* The block Filter.Add, AddAtomic and Has select: reducerange(h1, len).
blockIndex(h, b) == reducerange(hi32(h), u32(len(b)))

\* Sets the bits ps[1..n] of block blk in turn.
RECURSIVE setbits(_, _, _)
setbits(blk, ps, n) ==
  IF n = 0 THEN blk ELSE setbit(setbits(blk, ps, n - 1), ps[n])

\* Add with the loop bound off by one (i+2 < f.k): the last bit is not set.
AddSkipsLast(f, h) ==
  LET i == blockIndex(h, f.b)
      ps == positions(h, f.k)
  IN  [f EXCEPT !.b[i] = setbits(@, ps, Len(ps) - 1)]

\* Add with the bits set in every block, not in the selected one alone.
AddAllBlocks(f, h) ==
  LET ps == positions(h, f.k)
  IN  [f EXCEPT !.b = [j \in DOMAIN f.b |-> setbits(f.b[j], ps, Len(ps))]]

\* Add inserts a key with hash value h into f.
Add(f, h) ==
  LET i == blockIndex(h, f.b)
      ps == positions(h, f.k)
  IN  [f EXCEPT !.b[i] = setbits(@, ps, Len(ps))]

\* Has reports whether a key with hash value h has been added.
Has(f, h) ==
  LET i == blockIndex(h, f.b)
      ps == positions(h, f.k)
  IN  \A j \in 1 .. Len(ps) : getbit(f.b[i], ps[j])

\* AddAtomic run to its end with no other goroutine interleaved, word by
\* word: setbitAtomic loads the word, returns if the bit is set, and else
\* compare-and-swaps old|bit in and loads again.
\* A plain store in place of the compare-and-swap.
StoreUint32(cur, old, new) == new

\* A compare-and-swap that never swaps.
CompareAndSwapFails(cur, old, new) == cur

CompareAndSwapUint32(cur, old, new) == IF cur = old THEN new ELSE cur

RECURSIVE setbitAtomicAlone(_, _)
setbitAtomicAlone(blk, i) ==
  LET old == blk[wordOf(i)]
  IN  IF {bitOf(i)} \cap old # {} THEN blk
      ELSE setbitAtomicAlone(
             [blk EXCEPT ![wordOf(i)] =
                CompareAndSwapUint32(@, old, old \cup {bitOf(i)})], i)

RECURSIVE setbitsAtomicAlone(_, _, _)
setbitsAtomicAlone(blk, ps, n) ==
  IF n = 0 THEN blk
  ELSE setbitAtomicAlone(setbitsAtomicAlone(blk, ps, n - 1), ps[n])

AddAtomic(f, h) ==
  LET i == blockIndex(h, f.b)
      ps == positions(h, f.k)
  IN  [f EXCEPT !.b[i] = setbitsAtomicAlone(@, ps, Len(ps))]

\* Clear resets f to its empty state.
Clear(f) == [f EXCEPT !.b = [j \in DOMAIN f.b |-> ZeroBlock]]

\* ------------------------------------------------------------------------
\* SyncFilter.

\* The bit indices SyncFilter.Add and Has use for hash h with hash count k:
\* the loop runs for i = 1 .. k-1.
syncPositions(h, k) ==
  LET s == hashSeq(hi32(h), lo32(h), 1, k - 1)
  IN  [j \in 1 .. Len(s) |-> s[j][1]]

\* getblock selects the block for a hash: the range reduction of the lower
\* 32 bits of the hash onto the number of blocks.
getblock(f, h2) == reducerange(h2, u32(len(f.b)))

\* SyncFilter.Add run to its end with no other goroutine interleaved.
SyncAdd(f, h) ==
  LET i == getblock(f, lo32(h))
      ps == syncPositions(h, f.k)
  IN  [f EXCEPT !.b[i] = setbitsAtomicAlone(@, ps, Len(ps))]

\* getbitAtomic reports whether bit (i modulo BlockBits) is set.
getbitAtomic(b, i) == ({bitOf(i)} \cap b[wordOf(i)]) # {}

\* SyncFilter.Has run to its end with no other goroutine interleaved.
SyncHas(f, h) ==
  LET i == getblock(f, lo32(h))
      ps == syncPositions(h, f.k)
  IN  \A j \in 1 .. Len(ps) : getbitAtomic(f.b[i], ps[j])

\* ------------------------------------------------------------------------
\* Set operations.

\* block.intersect with |= written for &=.
blockIntersectOr(b, c) == [w \in 0 .. blockWords - 1 |-> b[w] \cup c[w]]

\* block.intersect and block.union: word-wise &= and |= of the 16 words.
blockIntersect(b, c) == [w \in 0 .. blockWords - 1 |-> b[w] \cap c[w]]

blockUnion(b, c) == [w \in 0 .. blockWords - 1 |-> b[w] \cup c[w]]

\* The portable intersect(a, b []block) and union(a, b []block): the loop
\* over the blocks of a that applies the block operation.
intersect(a, b) == [j \in DOMAIN a |-> blockIntersect(a[j], b[j])]

unionPortable(a, b) == [j \in DOMAIN a |-> blockUnion(a[j], b[j])]

\* por with the POR left out: the units of b are stored over those of a.
porStore(a, b, di, n) ==
  [j \in DOMAIN a |->
     [w \in 0 .. blockWords - 1 |->
        IF 4 * j + w \div 4 \in di .. di + n - 1
        THEN b[j][w] ELSE a[j][w]]]

\* The SSE2 union(a, b []block) of the amd64 assembly.  Memory is addressed
\* in 16-byte units (one X register, four words): unit u of a slice is
\* words 4*(u%4) .. 4*(u%4)+3 of block u \div 4.  por(a, b, di, n) is one
\* group "MOVOU load / POR / MOVOU store" over the n units at offset di of
\* both slices.
por(a, b, di, n) ==
  [j \in DOMAIN a |->
     [w \in 0 .. blockWords - 1 |->
        IF 4 * j + w \div 4 \in di .. di + n - 1
        THEN a[j][w] \cup b[j][w] ELSE a[j][w]]]

\* The code from label "pair" on: with CX >= 2 two blocks are united, and
\* control falls into "single" with CX, DI and SI as they were; "single"
\* unites one block at DI unless CX = 0.
unionAsmTail(a, b, cx, di) ==
  LET a1 == IF cx >= 2 THEN por(a, b, di, 8) ELSE a
  IN  IF cx = 0 THEN a1 ELSE por(a1, b, di, 4)

\* The label "loop": four blocks per iteration while CX >= 4.
RECURSIVE unionAsmLoop(_, _, _, _)
unionAsmLoop(a, b, cx, di) ==
  IF cx >= 4 THEN unionAsmLoop(por(a, b, di, 16), b, cx - 4, di + 16)
  ELSE unionAsmTail(a, b, cx, di)

unionAsm(a, b) == unionAsmLoop(a, b, len(a), 0)

\* The 64-bit-word set operations of setop_amd64.go.  A block is read
\* through a pointer cast as eight uint64 words: on amd64 (little-endian)
\* word j of the block64 is word 2j of the block in its low half and word
\* 2j+1 in its high half.
Words64 == 0 .. (BlockBits \div 64) - 1

block64(b) ==
  [j \in Words64 |-> b[2 * j] \cup {x + wordSize : x \in b[2 * j + 1]}]

fromBlock64(p) ==
  [w \in 0 .. blockWords - 1 |->
     IF w % 2 = 0 THEN {x \in p[w \div 2] : x < wordSize}
     ELSE {x - wordSize : x \in {y \in p[w \div 2] : y >= wordSize}}]

\* p[0] &= q[0]; ...; p[7] &= q[7] on block i of a and b.
and64(a, b, i) ==
  LET p == block64(a[i])
      q == block64(b[i])
  IN  [a EXCEPT ![i] = fromBlock64([j \in Words64 |-> p[j] \cap q[j]])]

\* p[0] |= q[0]; ...; p[7] |= q[7] on block i of a and b.
or64(a, b, i) ==
  LET p == block64(a[i])
      q == block64(b[i])
  IN  [a EXCEPT ![i] = fromBlock64([j \in Words64 |-> p[j] \cup q[j]])]

\* Filter.intersect: two blocks per iteration while two or more are left,
\* then the odd one.  off is the number of blocks sliced off a and b.
RECURSIVE intersect64(_, _, _)
intersect64(a, b, off) ==
  IF len(a) - off >= 2
  THEN intersect64(and64(and64(a, b, off), b, off + 1), b, off + 2)
  ELSE IF len(a) - off > 0 THEN and64(a, b, off) ELSE a

\* Filter.union, likewise.
RECURSIVE union64(_, _, _)
union64(a, b, off) ==
  IF len(a) - off >= 2
  THEN union64(or64(or64(a, b, off), b, off + 1), b, off + 2)
  ELSE IF len(a) - off > 0 THEN or64(a, b, off) ELSE a

\* union(a, b []block) as Filter.Union calls it: the assembly routine, the
\* definition of union that the sources hold.
union(a, b) == unionAsm(a, b)

\* Filter.Intersect and Filter.Union: the outcome is "panic" with f as it
\* was when the shapes differ, and else the filter after the operation.
Intersect(f, g) ==
  IF len(f.b) # len(g.b) THEN [panic |-> TRUE, f |-> f]
  ELSE IF f.k # g.k THEN [panic |-> TRUE, f |-> f]
  ELSE [panic |-> FALSE, f |-> [f EXCEPT !.b = intersect(f.b, g.b)]]

\* Union without the comparison of the hash counts.
UnionSkipsKCheck(f, g) ==
  IF len(f.b) # len(g.b) THEN [panic |-> TRUE, f |-> f]
  ELSE [panic |-> FALSE, f |-> [f EXCEPT !.b = unionPortable(f.b, g.b)]]

Union(f, g) ==
  IF len(f.b) # len(g.b) THEN [panic |-> TRUE, f |-> f]
  ELSE IF f.k # g.k THEN [panic |-> TRUE, f |-> f]
  ELSE [panic |-> FALSE, f |-> [f EXCEPT !.b = union(f.b, g.b)]]

\* ------------------------------------------------------------------------
\* The sequential specification: calls on two filters, one at a time.

\* The hashes the calls draw from (16-bit limbs, most significant first).
\* hA and hX have h1 = 0xC00000xx and hB has h1 = 0xA0000002: all three
\* fall into the last block of a filter of one or two blocks, and hB into
\* the block before that of hA and hX in a filter of three or four.  With
\* k = 3 hA uses bits 1 and 2, hB bits 5 and 8, and hX bits 2 and 5, one of
\* hA's and one of hB's.
hA == <<49152, 0, 0, 1>>

hB == <<40960, 2, 0, 3>>

hX == <<49152, 511, 0, 3>>

Hashes == {hA, hB, hX}

\* A hash whose two SyncFilter bits for three hash functions are one bit,
\* the first bit of hA.
hS == <<0, 2, 0, 511>>

LinHashes == {hA, hS}

Names == {"f", "g"}

\* The requests New is called with: bit counts on and just below the
\* multiples of BlockBits (and zero), hash counts from zero.
NBitsChoices ==
  {0} \cup {j * BlockBits - d : j \in 1 .. MaxBlocks, d \in {0, 1}}

Shapes == {New(nb, nh) : nb \in NBitsChoices, nh \in 0 .. MaxK}

Call(name, x, h, ret) == [name |-> name, x |-> x, h |-> h, ret |-> ret]

\* A goroutine that has made no call yet.
IdleThread ==
  [pc |-> "idle", op |-> "none", h |-> hA, j |-> 1, old |-> {},
   snap |-> ZeroBlock, must |-> FALSE, res |-> "none"]

concVars == <<cf, impl, th, done, calls, lin>>

\* No call made on its own.
NoApiCall == [fn |-> "none", in |-> <<>>, out |-> <<>>]

seqVars == <<fl, added, op>>

\* The concurrent program with no goroutine started.
ConcIdle ==
  /\ cf = New(0, 0)
  /\ impl = "Filter"
  /\ th = [t \in Threads |-> IdleThread]
  /\ done = {}
  /\ calls = 0
  /\ lin = {}

Init ==
  /\ fl \in [Names -> Shapes]
  /\ added = [n \in Names |-> {}]
  /\ op = Call("New", "f", hA, "ok")
  /\ ConcIdle
  /\ call = NoApiCall

DoAdd(x, h) ==
  /\ fl' = [fl EXCEPT ![x] = Add(@, h)]
  /\ added' = [added EXCEPT ![x] = @ \cup {h}]
  /\ op' = Call("Add", x, h, "ok")
  /\ UNCHANGED <<concVars, call>>

DoAddAtomic(x, h) ==
  /\ fl' = [fl EXCEPT ![x] = AddAtomic(@, h)]
  /\ added' = [added EXCEPT ![x] = @ \cup {h}]
  /\ op' = Call("AddAtomic", x, h, "ok")
  /\ UNCHANGED <<concVars, call>>

DoHas(x, h) ==
  /\ op' = Call("Has", x, h, IF Has(fl[x], h) THEN "true" ELSE "false")
  /\ UNCHANGED <<fl, added>>
  /\ UNCHANGED <<concVars, call>>

DoClear(x) ==
  /\ fl' = [fl EXCEPT ![x] = Clear(@)]
  /\ added' = [added EXCEPT ![x] = {}]
  /\ op' = Call("Clear", x, hA, "ok")
  /\ UNCHANGED <<concVars, call>>

DoUnion(x, y) ==
  LET r == Union(fl[x], fl[y])
  IN  /\ fl' = [fl EXCEPT ![x] = r.f]
      /\ op' = Call("Union", x, hA, IF r.panic THEN "panic" ELSE "ok")
      /\ UNCHANGED added
      /\ UNCHANGED <<concVars, call>>

DoIntersect(x, y) ==
  LET r == Intersect(fl[x], fl[y])
  IN  /\ fl' = [fl EXCEPT ![x] = r.f]
      /\ added' = IF r.panic THEN added ELSE [added EXCEPT ![x] = {}]
      /\ op' = Call("Intersect", x, hA, IF r.panic THEN "panic" ELSE "ok")
      /\ UNCHANGED <<concVars, call>>
    
Next ==
  \/ \E x \in Names, h \in Hashes : DoAdd(x, h)
  \/ \E x \in Names, h \in Hashes : DoAddAtomic(x, h)
  \/ \E x \in Names, h \in Hashes : DoHas(x, h)
  \/ \E x \in Names : DoClear(x)
  \/ \E x \in Names : \E y \in Names \ {x} : DoUnion(x, y)
  \/ \E x \in Names : \E y \in Names \ {x} : DoIntersect(x, y)

vars == <<fl, added, op, cf, impl, th, done, calls, lin, call>>

Spec == Init /\ [][Next]_vars

\* ------------------------------------------------------------------------
\* Goroutines calling Add and Has on one shared filter.  With impl =
\* "Filter" the calls are AddAtomic and Has, with impl = "SyncFilter" they
\* are SyncFilter.Add and SyncFilter.Has.  Each atomic load and each
\* compare-and-swap is one step.

\* The bit indices of the hashes of Hashes under either type, for every
\* hash count.
posTable ==
  [m \in {"Filter", "SyncFilter"}, h \in Hashes, k \in 2 .. MaxK |->
     IF m = "Filter" THEN positions(h, k) ELSE syncPositions(h, k)]

\* The bit indices and the block of the call goroutine t is in.
PosOf(t) ==
  IF <<impl, th[t].h, cf.k>> \in DOMAIN posTable
  THEN posTable[impl, th[t].h, cf.k]
  ELSE IF impl = "Filter" THEN positions(th[t].h, cf.k)
  ELSE syncPositions(th[t].h, cf.k)

BlkOf(t) ==
  IF impl = "Filter" THEN blockIndex(th[t].h, cf.b)
  ELSE getblock(cf, lo32(th[t].h))

\* Goroutine t calls AddAtomic(h) (SyncFilter.Add(h)) and reaches the load
\* of the first setbitAtomic.
BeginAdd(t, h) ==
  /\ th[t].pc = "idle"
  /\ calls < MaxCalls
  /\ th' = [th EXCEPT ![t] = [IdleThread EXCEPT !.pc = "load", !.op = "Add",
                                                !.h = h]]
  /\ calls' = calls + 1
  /\ UNCHANGED <<cf, impl, done>>

\* The record of a goroutine whose call returned res: the locals of the
\* call are gone, what stays is the result and, for Has, whether an Add of
\* its hash had returned before it began.
Returned(r, res) == [IdleThread EXCEPT !.res = res, !.must = r.must]

\* old := atomic.LoadUint32(p); if old&bit != 0 { return }.  After the
\* return of the last setbitAtomic the call returns.
Load(t) ==
  /\ th[t].pc = "load"
  /\ LET ps == PosOf(t)
         i == ps[th[t].j]
         old == cf.b[BlkOf(t)][wordOf(i)]
     IN  IF {bitOf(i)} \cap old # {}
         THEN IF th[t].j = Len(ps)
              THEN /\ th' = [th EXCEPT ![t] = Returned(@, "ok")]
                   /\ done' = done \cup {th[t].h}
              ELSE /\ th' = [th EXCEPT ![t].j = @ + 1]
                   /\ UNCHANGED done
         ELSE /\ th' = [th EXCEPT ![t].pc = "cas", ![t].old = old]
              /\ UNCHANGED done
  /\ UNCHANGED <<cf, impl, calls>>

\* atomic.CompareAndSwapUint32(p, old, old|bit), then around the loop.
Cas(t) ==
  /\ th[t].pc = "cas"
  /\ LET i == PosOf(t)[th[t].j]
         old == th[t].old
     IN  cf' = [cf EXCEPT !.b[BlkOf(t)][wordOf(i)] =
                  CompareAndSwapUint32(@, old, old \cup {bitOf(i)})]
  /\ th' = [th EXCEPT ![t].pc = "load", ![t].old = {}]
  /\ UNCHANGED <<impl, done, calls>>

\* Goroutine t calls Has(h).
BeginHas(t, h) ==
  /\ th[t].pc = "idle"
  /\ calls < MaxCalls
  /\ LET t1 == [IdleThread EXCEPT !.pc = "has", !.op = "Has", !.h = h,
                                  !.must = (h \in done)]
     IN  th' = [th EXCEPT ![t] =
                  IF impl = "Filter"
                  THEN [t1 EXCEPT !.snap = cf.b[blockIndex(h, cf.b)]]
                  ELSE t1]
  /\ calls' = calls + 1
  /\ UNCHANGED <<cf, impl, done>>

\* Bit tests that are ordered after nothing: any of them may still read
\* the bit as New left it.
BitReadsUnordered(t) ==
  {FALSE, getbit(cf.b[BlkOf(t)], PosOf(t)[th[t].j])}

\* What one bit test of Has may read.  getbitAtomic loads the word as it
\* is now.  The plain load of Filter.getbit races with the
\* compare-and-swaps of goroutines in AddAtomic: it reads the bit as it is
\* now or as some earlier store since the call began left it.
BitReads(t) ==
  LET i == PosOf(t)[th[t].j]
  IN  IF impl = "Filter"
      THEN {getbit(th[t].snap, i), getbit(cf.b[BlkOf(t)], i)}
      ELSE {getbitAtomic(cf.b[BlkOf(t)], i)}

\* One iteration of the loop of Has: return false on an unset bit, true
\* after the last bit.
HasStep(t) ==
  /\ th[t].pc = "has"
  /\ \E v \in BitReads(t) :
       th' = [th EXCEPT ![t] =
                IF ~v THEN Returned(@, "false")
                ELSE IF @.j = Len(PosOf(t)) THEN Returned(@, "true")
                ELSE [@ EXCEPT !.j = @ + 1]]
  /\ UNCHANGED <<cf, impl, done, calls>>

\* The sequential program with no call made.
SeqIdle ==
  /\ fl = [n \in Names |-> New(0, 0)]
  /\ added = [n \in Names |-> {}]
  /\ op = Call("New", "f", hA, "ok")

\* The filters the goroutines share: the largest block count, every hash
\* count.
AtomicShapes == {New(MaxBlocks * BlockBits, nh) : nh \in 2 .. MaxK}

\* The goroutines start on a new filter, of either type.
InitAtomic ==
  /\ SeqIdle
  /\ cf \in AtomicShapes
  /\ impl \in {"Filter", "SyncFilter"}
  /\ th = [t \in Threads |-> IdleThread]
  /\ done = {}
  /\ calls = 0
  /\ lin = {}
  /\ call = NoApiCall

AtomicBeginAdd(t, h) == BeginAdd(t, h) /\ UNCHANGED <<lin, fl, added, op, call>>

AtomicLoad(t) == Load(t) /\ UNCHANGED <<lin, fl, added, op, call>>

AtomicCas(t) == Cas(t) /\ UNCHANGED <<lin, fl, added, op, call>>

AtomicBeginHas(t, h) == BeginHas(t, h) /\ UNCHANGED <<lin, fl, added, op, call>>

AtomicHasStep(t) == HasStep(t) /\ UNCHANGED <<lin, fl, added, op, call>>

NextAtomic ==
  \/ \E t \in Threads, h \in Hashes : AtomicBeginAdd(t, h)
  \/ \E t \in Threads : AtomicLoad(t)
  \/ \E t \in Threads : AtomicCas(t)
  \/ \E t \in Threads, h \in Hashes : AtomicBeginHas(t, h)
  \/ \E t \in Threads : AtomicHasStep(t)

SpecAtomic == InitAtomic /\ [][NextAtomic]_vars

\* ------------------------------------------------------------------------
\* SyncFilter against a Filter behind a lock.  lin holds every way the
\* calls so far can have taken effect one at a time: a configuration is
\* the set S of hashes whose Add has taken effect and, per goroutine, its
\* call and the result r it got when it took effect ("pending" while it
\* has not).  A call takes effect at some moment between its beginning and
\* its return.

NoCall == [op |-> "none", h |-> hA, r |-> "none"]

\* The SyncFilter of f's shape after Add calls for the hashes of S, one
\* call at a time.
RECURSIVE SyncBuild(_, _)
SyncBuild(f, S) ==
  IF S = {} THEN Clear(f)
  ELSE LET h == CHOOSE e \in S : TRUE IN SyncAdd(SyncBuild(f, S \ {h}), h)

\* The pending call of goroutine t takes effect in configuration c.
TakeEffect(c, t) ==
  IF c.p[t].op = "Add"
  THEN [S |-> c.S \cup {c.p[t].h}, p |-> [c.p EXCEPT ![t].r = "ok"]]
  ELSE [c EXCEPT !.p[t].r =
          IF SyncHas(SyncBuild(cf, c.S), c.p[t].h) THEN "true" ELSE "false"]

\* The configurations reachable from those of L by pending calls taking
\* effect.
RECURSIVE Closure(_)
Closure(L) ==
  LET N == L \cup {TakeEffect(c, t) :
                     <<c, t>> \in {<<d, u>> \in L \X Threads :
                                     d.p[u].r = "pending"}}
  IN  IF N = L THEN L ELSE Closure(N)

\* Goroutine t begins the call op(h).
Invoke(L, t, o, h) ==
  Closure({[c EXCEPT !.p[t] = [op |-> o, h |-> h, r |-> "pending"]] : c \in L})

\* The call of goroutine t returns r.
Respond(L, t, r) ==
  {[c EXCEPT !.p[t] = NoCall] : c \in {d \in L : d.p[t].r = r}}

\* The goroutines start on a new SyncFilter of any shape.
InitLin ==
  /\ SeqIdle
  /\ cf \in Shapes
  /\ impl = "SyncFilter"
  /\ th = [t \in Threads |-> IdleThread]
  /\ done = {}
  /\ calls = 0
  /\ lin = {[S |-> {}, p |-> [t \in Threads |-> NoCall]]}
  /\ call = NoApiCall

\* lin after a step of goroutine t that may have been its return.
AfterStep(t) ==
  /\ lin' = IF th'[t].pc = "idle" THEN Respond(lin, t, th'[t].res) ELSE lin
  /\ UNCHANGED <<fl, added, op, call>>

LinBeginAdd(t, h) ==
  /\ BeginAdd(t, h)
  /\ lin' = Invoke(lin, t, "Add", h)
  /\ UNCHANGED <<fl, added, op, call>>

LinLoad(t) == Load(t) /\ AfterStep(t)

LinCas(t) == Cas(t) /\ AfterStep(t)

LinBeginHas(t, h) ==
  /\ BeginHas(t, h)
  /\ lin' = Invoke(lin, t, "Has", h)
  /\ UNCHANGED <<fl, added, op, call>>

LinHasStep(t) == HasStep(t) /\ AfterStep(t)

NextLin ==
  \/ \E t \in Threads, h \in LinHashes : LinBeginAdd(t, h)
  \/ \E t \in Threads : LinLoad(t)
  \/ \E t \in Threads : LinCas(t)
  \/ \E t \in Threads, h \in LinHashes : LinBeginHas(t, h)
  \/ \E t \in Threads : LinHasStep(t)

SpecLin == InitLin /\ [][NextLin]_vars

\* ------------------------------------------------------------------------
\* Properties of the sequential specification.

\* The filter of f's shape built by adding exactly the hashes of S.
RECURSIVE Build(_, _)
Build(f, S) ==
  IF S = {} THEN Clear(f)
  ELSE LET h == CHOOSE e \in S : TRUE IN Add(Build(f, S \ {h}), h)

\* Whether every bit Has tests for h in f is set in the block of f or in
\* the block of g that h selects.
BitsInEither(f, g, h) ==
  LET i == blockIndex(h, f.b)
      ps == positions(h, f.k)
  IN  \A j \in 1 .. Len(ps) : getbit(f.b[i], ps[j]) \/ getbit(g.b[i], ps[j])

\* The step is a call x.Union(y) that returned; x.Intersect(y) that
\* returned; either call, returned or panicked.  With two filters y is the
\* other one.
UnionDone(x) == op'.name = "Union" /\ op'.x = x /\ op'.ret = "ok"

IntersectDone(x) == op'.name = "Intersect" /\ op'.x = x /\ op'.ret = "ok"

SetOpCalled(x) == op'.name \in {"Union", "Intersect"} /\ op'.x = x

\* C1: no false negatives.  In every state reached by Add, AddAtomic and
\* Union calls, Has reports every hash that was passed to Add or AddAtomic
\* on that filter since its last Clear or Intersect, and a Has call made
\* for such a hash has returned true.
C1_NoFalseNegatives ==
  /\ \A x \in Names : \A h \in added[x] : Has(fl[x], h)
  /\ (op.name = "Has" /\ op.h \in added[op.x]) => op.ret = "true"

\* A Has call that returned true for an added hash, on a filter of several
\* blocks that holds all three hashes, while the other filter differs.
C1_Witness ==
  /\ op.name = "Has" /\ op.ret = "true"
  /\ added[op.x] = Hashes
  /\ len(fl[op.x].b) >= 2
  /\ fl[op.x].k >= 3

\* Every goroutine has returned from its calls.
Quiescent == \A t \in Threads : th[t].pc = "idle"

\* The bits that the setbitAtomic calls goroutine t has returned from have
\* set are set.
EarlierBitsSet(t) ==
  \A j \in 1 .. th[t].j - 1 : getbit(cf.b[BlkOf(t)], PosOf(t)[j])

\* C2: concurrent-add equivalence.  Under every interleaving of the loads
\* and compare-and-swaps of goroutines calling AddAtomic on one filter, no
\* bit a goroutine has set is lost, and when all calls have returned the
\* blocks equal those one thread calling Add on the same hashes produces.
C2_AtomicAddsAsSequential ==
  impl = "Filter" =>
    /\ \A h \in done : Has(cf, h)
    /\ \A t \in Threads : th[t].op = "Add" => EarlierBitsSet(t)
    /\ Quiescent => cf.b = Build(cf, done).b

\* Both goroutines have returned from AddAtomic calls that added hA and hX,
\* which share a word of one block, to a filter with the largest hash
\* count.
C2_Witness ==
  /\ impl = "Filter" /\ Quiescent
  /\ cf.k = MaxK
  /\ {hA, hX} \subseteq done
  /\ \A t \in Threads : th[t].res = "ok"

\* C3: ordering guarantee.  A Has(h) call that began after an AddAtomic(h)
\* (SyncFilter.Add(h)) call returned has returned true, whatever Add calls
\* for other hashes ran beside either call.
C3_HasAfterAddReturned ==
  \A t \in Threads : (th[t].pc = "idle" /\ th[t].must) => th[t].res = "true"

\* A Has that began after an Add of its hash returned has returned true
\* while another goroutine is between the load and the compare-and-swap of
\* an Add.
C3_Witness ==
  \E t \in Threads :
    /\ th[t].pc = "idle" /\ th[t].must /\ th[t].res = "true"
    /\ \E u \in Threads \ {t} : th[u].pc = "cas"

\* C4: SyncFilter and Filter are the same filter.  After the same hashes
\* are added to a SyncFilter and to a Filter of the same shape, the block
\* arrays are equal and SyncFilter.Has agrees with Filter.Has on every
\* hash.
C4_SyncFilterIsFilter ==
  (impl = "SyncFilter" /\ Quiescent) =>
    /\ cf.b = Build(cf, done).b
    /\ \A x \in Hashes : SyncHas(cf, x) = Has(cf, x)

\* C5: SyncFilter offers the contract of a mutex-protected Filter.  Every
\* execution of concurrent SyncFilter.Add and SyncFilter.Has calls is
\* linearizable: the calls so far can have taken effect one at a time, each
\* between its beginning and its return, with the results they returned.
C5_Linearizable == lin # {}

\* C11: the accelerated set operations are bit-identical to the portable
\* ones.  For two filters of one block count, the SSE2 assembly union and
\* the 64-bit-word union give old a[i] OR b[i] in every block, and the
\* 64-bit-word intersect gives old a[i] AND b[i], as the portable per-word
\* loops do.
C11_AcceleratedIsPortable ==
  \A x \in Names : \A y \in Names \ {x} :
    len(fl[x].b) = len(fl[y].b) =>
      /\ unionAsm(fl[x].b, fl[y].b) = unionPortable(fl[x].b, fl[y].b)
      /\ union64(fl[x].b, fl[y].b, 0) = unionPortable(fl[x].b, fl[y].b)
      /\ intersect64(fl[x].b, fl[y].b, 0) = intersect(fl[x].b, fl[y].b)

\* The same with the assembly union left out: the 64-bit-word paths alone.
C11_Words64ArePortable ==
  \A x \in Names : \A y \in Names \ {x} :
    len(fl[x].b) = len(fl[y].b) =>
      /\ union64(fl[x].b, fl[y].b, 0) = unionPortable(fl[x].b, fl[y].b)
      /\ intersect64(fl[x].b, fl[y].b, 0) = intersect(fl[x].b, fl[y].b)

\* C6: union soundness.  A Union call that does not panic leaves Has(h)
\* true on its receiver for every hash h for which Has was true, before
\* the call, on the receiver or on the argument.
C6_UnionSound ==
  [][\A x \in Names : \A y \in Names \ {x} :
       UnionDone(x) =>
         \A h \in Hashes :
           (Has(fl[x], h) \/ Has(fl[y], h)) => Has(fl'[x], h)]_vars

\* C7: union is the filter of the union of the key sets.  When x holds
\* exactly the hashes added[x] and y exactly added[y], x.Union(y) makes x
\* the filter built from added[x] \cup added[y], leaves y as it was, and a
\* following y.Union(x) makes y equal to x.
C7_UnionOfKeySets ==
  [][\A x \in Names : \A y \in Names \ {x} :
       (/\ UnionDone(x)
        /\ fl[x] = Build(fl[x], added[x])
        /\ fl[y] = Build(fl[y], added[y])) =>
         /\ fl'[x] = Build(fl[x], added[x] \cup added[y])
         /\ fl'[y] = fl[y]
         /\ Union(fl'[y], fl'[x]).f = fl'[x]]_vars

\* C8: after a Union call that does not panic, Has(h) on the receiver
\* equals, for every hash h, the OR of what Has(h) answered on the receiver
\* and on the argument before the call.
C8_HasIsOr ==
  [][\A x \in Names : \A y \in Names \ {x} :
       UnionDone(x) =>
         \A h \in Hashes :
           Has(fl'[x], h) <=> (Has(fl[x], h) \/ Has(fl[y], h))]_vars

\* What does hold of Has after a Union call that does not panic: Has(h) on
\* the receiver is true if it was true on the receiver before the call,
\* and is true only if every bit that h tests was set, before the call, in
\* the receiver or in the argument.  That it is true whenever it was true
\* on the argument does not hold: the assembly union leaves out the last
\* of three blocks (C6, C11).
C8_HasAfterUnion ==
  [][\A x \in Names : \A y \in Names \ {x} :
       UnionDone(x) =>
         \A h \in Hashes :
           /\ Has(fl[x], h) => Has(fl'[x], h)
           /\ Has(fl'[x], h) => BitsInEither(fl[x], fl[y], h)]_vars

\* After a Union, Has reports hX although hX was added to neither filter:
\* one of its bits came from hA and the other from hB.
C8_Witness ==
  /\ op.name = "Union" /\ op.ret = "ok"
  /\ Has(fl[op.x], hX)
  /\ hX \notin added["f"] \cup added["g"]
  /\ \E y \in Names \ {op.x} : ~Has(fl[y], hX)

\* C9: after an Intersect call that does not panic, Has(h) on the receiver
\* equals, for every hash h, the AND of what Has(h) answered on the
\* receiver and on the argument before the call; every hash added to both
\* is still reported.
C9_HasIsAnd ==
  [][\A x \in Names : \A y \in Names \ {x} :
       IntersectDone(x) =>
         /\ \A h \in Hashes :
              Has(fl'[x], h) <=> (Has(fl[x], h) /\ Has(fl[y], h))
         /\ \A h \in added[x] \cap added[y] : Has(fl'[x], h)]_vars

\* After an Intersect the receiver still reports hA, which the argument
\* holds too, and no longer reports hB, which the argument holds as well
\* as hX.
C9_Witness ==
  /\ op.name = "Intersect" /\ op.ret = "ok"
  /\ Has(fl[op.x], hA) /\ ~Has(fl[op.x], hB)
  /\ \E y \in Names \ {op.x} : {hA, hB} \subseteq added[y]
  /\ fl[op.x].k >= 3

\* C10: Union and Intersect panic exactly when the two filters differ in
\* block count or in hash count, and a call that panics leaves both
\* filters as they were.
C10_PanicIffShapesDiffer ==
  [][\A x \in Names : \A y \in Names \ {x} :
       SetOpCalled(x) =>
         /\ op'.ret = "panic" <=>
              (len(fl[x].b) # len(fl[y].b) \/ fl[x].k # fl[y].k)
         /\ op'.ret = "panic" => fl' = fl]_vars

\* A Union that panicked on two non-empty filters of equal block count and
\* different hash counts.
C10_Witness ==
  /\ op.name = "Union" /\ op.ret = "panic"
  /\ len(fl["f"].b) = len(fl["g"].b)
  /\ fl["f"].k # fl["g"].k
  /\ added["f"] # {} /\ added["g"] # {}

\* C12: idempotence.  On every filter state and for every hash, a second
\* Add (AddAtomic) of the hash right after the first leaves the filter as
\* the first left it; and after an Add or AddAtomic call has returned,
\* repeating the call changes nothing.
C12_AddIdempotent ==
  /\ \A x \in Names : \A h \in Hashes :
       /\ Add(Add(fl[x], h), h) = Add(fl[x], h)
       /\ AddAtomic(AddAtomic(fl[x], h), h) = AddAtomic(fl[x], h)
  /\ op.name \in {"Add", "AddAtomic"} =>
       /\ Add(fl[op.x], op.h) = fl[op.x]
       /\ AddAtomic(fl[op.x], op.h) = fl[op.x]

\* An Add has returned on a filter of several blocks and three hash
\* functions that already held another hash.
C12_Witness ==
  /\ op.name = "Add"
  /\ fl[op.x].k = MaxK /\ len(fl[op.x].b) >= 2
  /\ added[op.x] \ {op.h} # {}
  /\ Has(fl[op.x], op.h)

\* ------------------------------------------------------------------------
\* New on the whole range of its arguments.  nbits is a uint64, held as
\* four 16-bit limbs, most significant first; the number of blocks can
\* reach 2^32, so the result is the length of f.b, not the blocks.

Zero64 == <<0, 0, 0, 0>>

\* A small non-negative int as a uint64.
small64(v) == <<0, 0, (v \div W16) % W16, v % W16>>

\* a < b.
lt64(a, b) ==
  \E i \in 1 .. 4 : a[i] < b[i] /\ \A j \in 1 .. i - 1 : a[j] = b[j]

\* a + b, wrapping at 2^64.
add64(a, b) ==
  LET s4 == a[4] + b[4]
      s3 == a[3] + b[3] + (s4 \div W16)
      s2 == a[2] + b[2] + (s3 \div W16)
      s1 == a[1] + b[1] + (s2 \div W16)
  IN  <<s1 % W16, s2 % W16, s3 % W16, s4 % W16>>

\* nbits % BlockBits with the remainder dropped: no rounding up happens.
modBlockBitsZero(a) == 0

\* a % BlockBits, a / BlockBits and BlockBits * a (wrapping) for a uint64:
\* BlockBits divides the limb base.
modBlockBits(a) == a[4] % BlockBits

divBlockBits(a) ==
  LET up == W16 \div BlockBits
  IN  <<a[1] \div BlockBits,
        (a[1] % BlockBits) * up + (a[2] \div BlockBits),
        (a[2] % BlockBits) * up + (a[3] \div BlockBits),
        (a[3] % BlockBits) * up + (a[4] \div BlockBits)>>

mulBlockBits(a) ==
  LET up == W16 \div BlockBits
  IN  <<((a[1] * BlockBits) % W16) + (a[2] \div up),
        ((a[2] * BlockBits) % W16) + (a[3] \div up),
        ((a[3] * BlockBits) % W16) + (a[4] \div up),
        (a[4] * BlockBits) % W16>>

\* MaxBits = BlockBits << 32.
MaxBits == <<0, BlockBits, 0, 0>>

\* New with the hash count left as requested.
NewLenKeepsK(nbits, nhashes) ==
  LET n1 == IF lt64(nbits, small64(1)) THEN small64(BlockBits) ELSE nbits
      r == modBlockBits(n1)
      n2 == IF r # 0 THEN add64(n1, small64(BlockBits - r)) ELSE n1
  IN  IF lt64(MaxBits, n1)
      THEN [panic |-> TRUE, len |-> Zero64, k |-> nhashes]
      ELSE [panic |-> FALSE, len |-> divBlockBits(n2), k |-> nhashes]

\* New(nbits, nhashes): whether it panics and, if not, len(f.b) and f.k.
NewLen(nbits, nhashes) ==
  LET n1 == IF lt64(nbits, small64(1)) THEN small64(BlockBits) ELSE nbits
      k1 == IF nhashes < 2 THEN 2 ELSE nhashes
      r == modBlockBits(n1)
      n2 == IF r # 0 THEN add64(n1, small64(BlockBits - r)) ELSE n1
  IN  IF lt64(MaxBits, n1)
      THEN [panic |-> TRUE, len |-> Zero64, k |-> k1]
      ELSE [panic |-> FALSE, len |-> divBlockBits(n2), k |-> k1]

\* NumBits of a filter of n blocks: BlockBits * uint64(len(f.b)).
NumBits(n) == mulBlockBits(n)

\* The bit counts New is called with: around zero, around multiples of
\* BlockBits, around 2^16 and 2^32, around MaxBits, and the largest uint64.
NBits64Choices ==
  {small64(v) : v \in {0, 1, 2, 100, BlockBits - 1, BlockBits, BlockBits + 1,
                       2 * BlockBits - 1, 2 * BlockBits, 10000,
                       W16 - 1, W16, W16 + 1}}
  \cup {<<0, 0, W16 - 1, W16 - 1>>, <<0, 1, 0, 0>>, <<0, 1, 0, 1>>,
        <<0, BlockBits - 1, W16 - 1, W16 - 1>>,
        <<0, BlockBits - 1, W16 - 1, W16 - BlockBits>>,
        <<0, BlockBits - 1, W16 - 1, W16 - BlockBits + 1>>,
        MaxBits, <<0, BlockBits, 0, 1>>, <<0, BlockBits, 0, BlockBits>>,
        <<1, 0, 0, 0>>, <<W16 - 1, W16 - 1, W16 - 1, W16 - 1>>}

\* The hash counts New is called with: negative, zero and up.
NHashChoices == -1 .. MaxK + 1

InitNew ==
  /\ SeqIdle
  /\ ConcIdle
  /\ call \in {[fn |-> "none", in |-> <<nb, nh>>, out |-> <<>>] :
                 nb \in NBits64Choices, nh \in NHashChoices}

CallNew ==
  /\ call.fn = "none"
  /\ call' = [fn |-> "New", in |-> call.in,
              out |-> NewLen(call.in[1], call.in[2])]
  /\ UNCHANGED <<fl, added, op, concVars>>

NextNew == CallNew

SpecNew == InitNew /\ [][NextNew]_vars

\* C13: size rounding.  For every nbits <= MaxBits and every nhashes, New
\* returns a filter with nbits <= NumBits() < nbits + BlockBits and NumBits()
\* a positive multiple of BlockBits.
C13_SizeRounding ==
  (call.fn = "New" /\ ~lt64(MaxBits, call.in[1])) =>
    LET nb == NumBits(call.out.len)
    IN  /\ ~call.out.panic
        /\ ~lt64(nb, call.in[1])
        /\ lt64(nb, add64(call.in[1], small64(BlockBits)))
        /\ modBlockBits(nb) = 0 /\ nb # Zero64

\* C13 as the code has it: the upper bound is strict for nbits >= 1; a
\* request of zero bits gets BlockBits bits, which is nbits + BlockBits.
C13_SizeRoundingFromOne ==
  (call.fn = "New" /\ ~lt64(MaxBits, call.in[1])) =>
    LET nb == NumBits(call.out.len)
    IN  /\ ~call.out.panic
        /\ ~lt64(nb, call.in[1])
        /\ IF call.in[1] = Zero64 THEN nb = small64(BlockBits)
           ELSE lt64(nb, add64(call.in[1], small64(BlockBits)))
        /\ modBlockBits(nb) = 0 /\ nb # Zero64

\* New has returned for a request above 2^32 bits that is not a multiple of
\* BlockBits and was rounded up to MaxBits.
C13_Witness ==
  /\ call.fn = "New" /\ ~call.out.panic
  /\ lt64(<<0, 1, 0, 0>>, call.in[1])
  /\ modBlockBits(call.in[1]) # 0
  /\ NumBits(call.out.len) = MaxBits

\* C14: New panics if and only if nbits > MaxBits; otherwise the filter's
\* hash count is max(nhashes, 2).
C14_PanicIffAboveMaxBits ==
  call.fn = "New" =>
    /\ call.out.panic <=> lt64(MaxBits, call.in[1])
    /\ ~call.out.panic =>
         call.out.k = IF call.in[2] > 2 THEN call.in[2] ELSE 2

\* New has returned a filter with two hash functions for a request of
\* MaxBits bits and a negative hash count.
C14_Witness ==
  /\ call.fn = "New" /\ ~call.out.panic
  /\ call.in[1] = MaxBits /\ call.in[2] < 0
  /\ call.out.k = 2

\* New has panicked on MaxBits + 1 bits.
C14_WitnessPanic ==
  /\ call.fn = "New" /\ call.out.panic
  /\ call.in[1] = <<0, BlockBits, 0, 1>>

\* ------------------------------------------------------------------------
\* SyncFilter.Write, Read and Equals.  A stream is a sequence of bytes.

\* An int of the code is an integer here when it lies in -2^31 .. 2^31 - 1,
\* and the four 16-bit limbs of its two's complement, most significant
\* first, when it does not.
W24 == 256 * W16

\* 2^31 - 1.
MaxInt32 == 127 * W24 + (W24 - 1)

\* binary.Write(stream, binary.BigEndian, int64(v)) for an integer v: eight
\* bytes, most significant first, two's complement.
be64(v) ==
  LET u == IF v >= 0 THEN v ELSE (v + MaxInt32) + 1
      ext == IF v >= 0 THEN 0 ELSE 255
      top == IF v >= 0 THEN 0 ELSE 128
  IN  <<ext, ext, ext, ext, top + u \div W24, (u \div W16) % 256,
        (u \div 256) % 256, u % 256>>

\* Whether the int64 that eight big-endian bytes hold lies in
\* -2^31 .. 2^31 - 1.
fitsInt32(bs) ==
  \/ (\A j \in 1 .. 4 : bs[j] = 0) /\ bs[5] < 128
  \/ (\A j \in 1 .. 4 : bs[j] = 255) /\ bs[5] >= 128

\* The int64 that eight big-endian bytes hold.
int64of(bs) ==
  LET low == bs[6] * W16 + bs[7] * 256 + bs[8]
  IN  IF ~fitsInt32(bs)
      THEN <<bs[1] * 256 + bs[2], bs[3] * 256 + bs[4], bs[5] * 256 + bs[6],
             bs[7] * 256 + bs[8]>>
      ELSE IF bs[5] < 128 THEN bs[5] * W24 + low
      ELSE ((bs[5] - 128) * W24 + low - MaxInt32) - 1

\* index < int(l) for the loop counter index and the int64 l that eight
\* bytes hold.
indexBelow(index, bs) ==
  IF fitsInt32(bs) THEN index < int64of(bs) ELSE bs[1] < 128

\* The value of the bits base .. base+i-1 of word w as a number.
RECURSIVE bitsValue(_, _, _)
bitsValue(w, base, i) ==
  IF i = 0 THEN 0
  ELSE bitsValue(w, base, i - 1) +
       (IF {base + i - 1} \cap w # {} THEN 2 ^ (i - 1) ELSE 0)

\* The uint32 written least significant byte first.
le32(w) == [j \in 1 .. 4 |-> bitsValue(w, 8 * (j - 1), 8)]

\* binary.Write(stream, binary.BigEndian, val) for a uint32 val.
be32(w) == [j \in 1 .. 4 |-> bitsValue(w, 8 * (4 - j), 8)]

\* The uint32 that four big-endian bytes hold.
uint32of(bs) ==
  {8 * (4 - j) + i : <<j, i>> \in
     {<<j, i>> \in (1 .. 4) \X (0 .. 7) : (bs[j] \div (2 ^ i)) % 2 = 1}}

\* The words w .. blockWords-1 of block blk written one after another.
RECURSIVE writeWords(_, _)
writeWords(blk, w) ==
  IF w = blockWords THEN <<>> ELSE be32(blk[w]) \o writeWords(blk, w + 1)

RECURSIVE writeBlocks(_, _)
writeBlocks(b, i) ==
  IF i = len(b) THEN <<>> ELSE writeWords(b[i], 0) \o writeBlocks(b, i + 1)

\* Whether the k of filter f lies outside -2^31 .. 2^31 - 1; f.k is then
\* in limbs.
wideK(f) == {"wide"} \cap DOMAIN f # {}

\* The eight bytes of limbs n, most significant first.
limbBytes(n) ==
  [j \in 1 .. 8 |-> IF j % 2 = 1 THEN n[(j + 1) \div 2] \div 256
                                 ELSE n[j \div 2] % 256]

\* SyncFilter.Write to a stream that takes every byte: the bytes written.
Write(f) ==
  (IF wideK(f) THEN limbBytes(f.k) ELSE be64(f.k))
    \o be64(len(f.b)) \o writeBlocks(f.b, 0)

\* binary.Read of n bytes at offset pos (0-based) of stream: io.ReadFull
\* returns io.EOF if no byte is left and io.ErrUnexpectedEOF if some but
\* fewer than n are.
binaryRead(stream, pos, n) ==
  IF Len(stream) - pos >= n
  THEN [err |-> "nil", bs |-> SubSeq(stream, pos + 1, pos + n)]
  ELSE IF Len(stream) - pos <= 0 THEN [err |-> "EOF", bs |-> <<>>]
  ELSE [err |-> "ErrUnexpectedEOF", bs |-> <<>>]

\* The inner loop of Read from word w of a block on: the block, or the
\* error of the first read that failed.
RECURSIVE readWords(_, _, _, _)
readWords(stream, pos, blk, w) ==
  IF w = blockWords THEN [err |-> "nil", blk |-> blk]
  ELSE LET r == binaryRead(stream, pos, 4)
       IN  IF r.err # "nil" THEN [err |-> r.err, blk |-> blk]
           ELSE readWords(stream, pos + 4,
                          [blk EXCEPT ![w] = uint32of(r.bs)], w + 1)

\* The outer loop of Read from block index on; l is the eight bytes of the
\* block count and b holds the blocks appended so far, as a sequence.
RECURSIVE readBlocks(_, _, _, _, _)
readBlocks(stream, pos, l, index, b) ==
  IF ~indexBelow(index, l) THEN [err |-> "nil", b |-> b]
  ELSE LET r == readWords(stream, pos, ZeroBlock, 0)
       IN  IF r.err # "nil" THEN [err |-> r.err, b |-> b]
           ELSE readBlocks(stream, pos + 4 * blockWords, l, index + 1,
                           Append(b, r.blk))

\* The nil *SyncFilter.
NilFilter == [b |-> <<>>, k |-> 0, nil |-> TRUE]

\* Read(stream): the filter (nil on an error) and the error.
Read(stream) ==
  LET rk == binaryRead(stream, 0, 8)
      rl == binaryRead(stream, 8, 8)
  IN  IF rk.err # "nil" THEN [f |-> NilFilter, err |-> rk.err]
      ELSE IF rl.err # "nil" THEN [f |-> NilFilter, err |-> rl.err]
      ELSE LET r == readBlocks(stream, 16, rl.bs, 0, <<>>)
               blocks == [j \in 0 .. Len(r.b) - 1 |-> r.b[j + 1]]
           IN  IF r.err # "nil" THEN [f |-> NilFilter, err |-> r.err]
               ELSE [f |-> IF fitsInt32(rk.bs)
                           THEN [b |-> blocks, k |-> int64of(rk.bs)]
                           ELSE [b |-> blocks, k |-> int64of(rk.bs),
                                 wide |-> TRUE],
                     err |-> "nil"]

\* f.Equals(f1).
Equals(f, f1) ==
  /\ wideK(f1) = wideK(f) /\ f1.k = f.k /\ len(f1.b) = len(f.b)
  /\ \A index \in DOMAIN f1.b : f1.b[index] = f.b[index]

\* A SyncFilter is written to a stream; the stream is read back as it is,
\* or cut short at some byte, or with other counts in its header.
\* call.in is the filter, call.out the stream, how it came about (via) and,
\* after Read, the filter and the error Read returned.

\* The filters written: every shape, with any of the hashes added.
WrittenFilters == {SyncBuild(sh, S) : sh \in Shapes, S \in SUBSET Hashes}

\* The hash counts and block counts put into a header.
ForgedK == -1 .. MaxK

ForgedLen == -1 .. MaxBlocks

InitIO ==
  /\ SeqIdle
  /\ ConcIdle
  /\ call \in {[fn |-> "none", in |-> f, out |-> <<>>] : f \in WrittenFilters}

CallWrite ==
  /\ call.fn = "none"
  /\ call' = [fn |-> "Write", in |-> call.in,
              out |-> [stream |-> Write(call.in), via |-> "Write"]]
  /\ UNCHANGED <<fl, added, op, concVars>>

\* The stream ends after n bytes, n less than were written.
Truncate(n) ==
  /\ call.fn = "Write"
  /\ n < Len(call.out.stream)
  /\ call' = [call EXCEPT !.fn = "Truncate",
                          !.out = [stream |-> SubSeq(call.out.stream, 1, n),
                                   via |-> "Truncate"]]
  /\ UNCHANGED <<fl, added, op, concVars>>

\* The stream declares hash count k and block count l.
Forge(k, l) ==
  /\ call.fn = "Write"
  /\ call' = [call EXCEPT !.fn = "Forge",
                          !.out = [stream |-> be64(k) \o be64(l) \o
                                     SubSeq(call.out.stream, 17,
                                            Len(call.out.stream)),
                                   via |-> "Forge"]]
  /\ UNCHANGED <<fl, added, op, concVars>>

CallRead ==
  /\ call.fn \in {"Write", "Truncate", "Forge"}
  /\ LET r == Read(call.out.stream)
     IN  call' = [call EXCEPT !.fn = "Read",
                              !.out = [stream |-> call.out.stream,
                                       via |-> call.out.via,
                                       f |-> r.f, err |-> r.err]]
  /\ UNCHANGED <<fl, added, op, concVars>>

NextIO ==
  \/ CallWrite
  \/ \E n \in 0 .. 16 + 4 * blockWords * MaxBlocks : Truncate(n)
  \/ \E k \in ForgedK, l \in ForgedLen : Forge(k, l)
  \/ CallRead

SpecIO == InitIO /\ [][NextIO]_vars

\* C15: serialization round trip.  Reading back the stream that Write wrote
\* for a filter succeeds and yields a filter equal to it: same k, same
\* block count, identical blocks.
C15_RoundTrip ==
  (call.fn = "Read" /\ call.out.via = "Write") =>
    /\ call.out.err = "nil"
    /\ Equals(call.in, call.out.f)
    /\ call.out.f = call.in

\* A filter of the largest shape holding all hashes has been written and
\* read back.
C15_Witness ==
  /\ call.fn = "Read" /\ call.out.via = "Write"
  /\ len(call.in.b) = MaxBlocks /\ call.in.k = MaxK
  /\ \A h \in Hashes : SyncHas(call.in, h)
  /\ call.out.err = "nil"

\* C16: shape invariant.  A filter that Read returns without an error has
\* at least one block and a hash count of at least two.
C16_ShapeInvariant ==
  (call.fn = "Read" /\ call.out.err = "nil") =>
    /\ len(call.out.f.b) >= 1
    /\ call.out.f.k >= 2

\* C17: truncated input.  Read on a stream that ends before the header and
\* all declared blocks returns a nil filter and io.ErrUnexpectedEOF.
C17_TruncatedIsUnexpectedEOF ==
  (call.fn = "Read" /\ call.out.via = "Truncate") =>
    /\ call.out.f = NilFilter
    /\ call.out.err = "ErrUnexpectedEOF"

\* ------------------------------------------------------------------------
\* Optimize and NewOptimized.  A Config is [FPRate, MaxBits, NKeys] with
\* FPRate a fraction <<numerator, denominator>> and the counts ints small
\* enough that every product below stays under 2^31, where float64 is exact.

\* var correctC.
correctC ==
  <<1, 1, 2, 4, 5,
    6, 7, 8, 9, 10, 11, 12, 13, 14, 16, 17, 18, 20, 21, 23,
    25, 26, 28, 30, 32, 35, 38, 40, 44, 48, 51, 58, 64, 74, 90>>

\* math.Ceil(-math.Log2(p) / math.Ln2) for the rates used here.
ceilC(p) ==
  CASE p = <<1, 1>> -> 0
    [] p = <<99, 100>> -> 1
    [] p = <<1, 2>> -> 2
    [] p = <<1, 100>> -> 10
    [] p = <<1, 1000>> -> 15
    [] p = <<1, 1000000000>> -> 44

\* math.Ln2 = 0.693147180559945309..., three decimal digits at a time.
Ln2Digits == <<693, 147, 180, 559, 945, 309>>

\* The carry of m * math.Ln2 out of the digits i .. 6: mulLn2(m, 1) is the
\* integer part of m * math.Ln2, for 0 <= m <= 2^21.
RECURSIVE mulLn2(_, _)
mulLn2(m, i) ==
  IF i > Len(Ln2Digits) THEN 0
  ELSE (m * Ln2Digits[i] + mulLn2(m, i + 1)) \div 1000

\* int(math.Round(float64(nbits) / n * math.Ln2)) for 0 <= nbits <= 2^20
\* and n >= 1: the integer part of nbits * math.Ln2 / n + 1/2, from which
\* the float64 result differs for no nbits that is a multiple of BlockBits
\* or at most 5000 and no n <= 5000.
roundCLn2(nbits, n) == (mulLn2(2 * nbits, 1) + n) \div (2 * n)

\* Whether Optimize panics: p <= 0 || p > 1.
badRate(p) == p[1] <= 0 \/ p[1] > p[2]

\* nbits after "Round up to a multiple of BlockBits", before the clamp.
unclamped(cfg) ==
  LET n == IF cfg.NKeys = 0 THEN 1 ELSE cfg.NKeys
      c0 == ceilC(cfg.FPRate)
      c == IF c0 < Len(correctC) THEN correctC[c0 + 1] ELSE c0 * 3
      nbits == c * n
  IN  IF nbits % BlockBits # 0 THEN nbits + (BlockBits - (nbits % BlockBits))
      ELSE nbits

\* Whether the clamp applies: maxbits is 2^32 * BlockBits, or cfg.MaxBits
\* if that is non-zero and smaller, and nbits > maxbits.
clamps(cfg) ==
  LET mb == small64(cfg.MaxBits)
      maxbits == IF mb # Zero64 /\ lt64(mb, MaxBits) THEN mb ELSE MaxBits
  IN  lt64(maxbits, small64(unclamped(cfg)))

\* Optimize without "Round down to a multiple of BlockBits".
OptimizeNoRoundDown(cfg) ==
  IF badRate(cfg.FPRate) THEN [panic |-> TRUE, nbits |-> 0, nhashes |-> 0]
  ELSE LET n == IF cfg.NKeys = 0 THEN 1 ELSE cfg.NKeys
           nbits == IF clamps(cfg) THEN cfg.MaxBits ELSE unclamped(cfg)
           nh == roundCLn2(nbits, n)
       IN  [panic |-> FALSE, nbits |-> nbits,
            nhashes |-> IF nh < 1 THEN 1 ELSE nh]

\* Optimize(cfg): whether it panics, and else nbits and nhashes.
Optimize(cfg) ==
  IF badRate(cfg.FPRate) THEN [panic |-> TRUE, nbits |-> 0, nhashes |-> 0]
  ELSE LET n == IF cfg.NKeys = 0 THEN 1 ELSE cfg.NKeys
           nbits == IF clamps(cfg)
                    THEN cfg.MaxBits - (cfg.MaxBits % BlockBits)
                    ELSE unclamped(cfg)
           nh == roundCLn2(nbits, n)
       IN  [panic |-> FALSE, nbits |-> nbits,
            nhashes |-> IF nh < 1 THEN 1 ELSE nh]

\* NewOptimized(cfg) = New(Optimize(cfg)): the filter's NumBits and k.
NewOptimized(o) ==
  LET f == NewLen(small64(o.nbits), o.nhashes)
  IN  [panic |-> f.panic, numbits |-> NumBits(f.len), k |-> f.k]

\* The configurations: valid and invalid rates, budgets below, on and
\* above multiples of BlockBits, and no budget.
RateChoices ==
  {<<1, 1>>, <<99, 100>>, <<1, 2>>, <<1, 100>>, <<1, 1000>>,
   <<1, 1000000000>>, <<0, 1>>, <<3, 2>>}

MaxBitsChoices ==
  {0, 1, 408, BlockBits - 1, BlockBits, BlockBits + 1, 2 * BlockBits - 1,
   2 * BlockBits, 8 * BlockBits, 100000}

NKeysChoices == {0, 1, 2, 100, 1000, 5000}

InitOptimize ==
  /\ SeqIdle
  /\ ConcIdle
  /\ call \in {[fn |-> "none",
                in |-> [FPRate |-> p, MaxBits |-> mb, NKeys |-> n],
                out |-> <<>>] :
                 p \in RateChoices, mb \in MaxBitsChoices, n \in NKeysChoices}

CallOptimize ==
  /\ call.fn = "none"
  /\ call' = [call EXCEPT !.fn = "Optimize", !.out = Optimize(call.in)]
  /\ UNCHANGED <<fl, added, op, concVars>>

\* New on the result of Optimize.
CallNewOptimized ==
  /\ call.fn = "Optimize" /\ ~call.out.panic
  /\ call' = [call EXCEPT !.fn = "NewOptimized",
                          !.out = [panic |-> FALSE, nbits |-> call.out.nbits,
                                   nhashes |-> call.out.nhashes,
                                   f |-> NewOptimized(call.out)]]
  /\ UNCHANGED <<fl, added, op, concVars>>

NextOptimize == CallOptimize \/ CallNewOptimized

SpecOptimize == InitOptimize /\ [][NextOptimize]_vars

\* Optimize, or Optimize and then New, has returned.
Optimized == call.fn \in {"Optimize", "NewOptimized"} /\ ~call.out.panic

\* C18: memory budget.  With a non-zero cfg.MaxBits, the bit count Optimize
\* returns and the NumBits of the filter NewOptimized builds never exceed
\* cfg.MaxBits; when the requirement exceeds MaxBits the bit count is
\* MaxBits rounded down to a multiple of BlockBits; the bit count is always
\* a multiple of BlockBits.
C18_WithinBudget ==
  Optimized =>
    /\ call.out.nbits % BlockBits = 0
    /\ call.in.MaxBits # 0 =>
         /\ call.out.nbits <= call.in.MaxBits
         /\ clamps(call.in) =>
              call.out.nbits = call.in.MaxBits - (call.in.MaxBits % BlockBits)
         /\ call.fn = "NewOptimized" =>
              ~lt64(small64(call.in.MaxBits), call.out.f.numbits)

\* C18 as the code has it: the filter NewOptimized builds stays within a
\* budget of BlockBits or more; with a smaller budget it has BlockBits bits,
\* the least a filter can have.
C18_WithinBudgetOfABlock ==
  Optimized =>
    /\ call.out.nbits % BlockBits = 0
    /\ call.in.MaxBits # 0 =>
         /\ call.out.nbits <= call.in.MaxBits
         /\ clamps(call.in) =>
              call.out.nbits = call.in.MaxBits - (call.in.MaxBits % BlockBits)
         /\ call.fn = "NewOptimized" =>
              IF call.in.MaxBits >= BlockBits
              THEN ~lt64(small64(call.in.MaxBits), call.out.f.numbits)
              ELSE call.out.f.numbits = small64(BlockBits)

\* NewOptimized has built a filter for a requirement above a budget that is
\* not a multiple of BlockBits.
C18_Witness ==
  /\ call.fn = "NewOptimized"
  /\ call.in.MaxBits = 2 * BlockBits - 1
  /\ clamps(call.in)
  /\ call.out.nbits = BlockBits
  /\ call.out.f.numbits = small64(BlockBits)

\* C19: Optimize returns nbits >= BlockBits and nhashes >= 1 for every
\* valid configuration, budgets below BlockBits included.
C19_AtLeastABlock ==
  (call.fn = "Optimize" /\ ~call.out.panic) =>
    /\ call.out.nbits >= BlockBits
    /\ call.out.nhashes >= 1

\* ------------------------------------------------------------------------
\* Clear, Fill and Empty, one call at a time.

\* A word with every bit set, ^uint32(0).
AllOnes == 0 .. wordSize - 1

\* Fill with the inner loop ending one word early.
FillSkipsLast(f) ==
  [f EXCEPT !.b = [i \in DOMAIN f.b |->
     [j \in 0 .. blockWords - 1 |->
        IF j < blockWords - 1 THEN AllOnes ELSE f.b[i][j]]]]

\* Fill sets f to a completely full filter: every word of every block is
\* stored as ^uint32(0).
Fill(f) ==
  [f EXCEPT !.b = [i \in DOMAIN f.b |->
     [j \in 0 .. blockWords - 1 |-> AllOnes]]]

\* Empty reports whether f contains no keys: no word of it is non-zero.
Empty(f) ==
  \A i \in DOMAIN f.b : \A j \in 0 .. blockWords - 1 : f.b[i][j] = {}

\* The filters the calls start from: every shape, after the Add calls of
\* Filter or of SyncFilter for a set of hashes.
ResetFilters ==
  {Build(sh, S) : sh \in Shapes, S \in SUBSET Hashes} \cup WrittenFilters

\* The hashes Has is asked for afterwards: those of the keys, and every
\* hash whose limbs are zero, one or all ones.
ResetHashes ==
  Hashes \cup {hS} \cup
  {<<a, b, c, d>> : a \in {0, 1, W16 - 1}, b \in {0, 1, W16 - 1},
                   c \in {0, 1, W16 - 1}, d \in {0, 1, W16 - 1}}

\* The filter as the calls so far have left it.
Current == IF call.fn = "none" THEN call.in ELSE call.out

InitReset ==
  /\ SeqIdle
  /\ ConcIdle
  /\ call \in {[fn |-> "none", in |-> f, out |-> <<>>] : f \in ResetFilters}

CallClear ==
  /\ call' = [fn |-> "Clear", in |-> Current, out |-> Clear(Current)]
  /\ UNCHANGED <<fl, added, op, concVars>>

CallFill ==
  /\ call' = [fn |-> "Fill", in |-> Current, out |-> Fill(Current)]
  /\ UNCHANGED <<fl, added, op, concVars>>

\* A key is added in between, by Filter.Add or by SyncFilter.Add.
CallAdd(h) ==
  /\ call' = [fn |-> "Add", in |-> Current, out |-> Add(Current, h)]
  /\ UNCHANGED <<fl, added, op, concVars>>

CallSyncAdd(h) ==
  /\ call' = [fn |-> "SyncAdd", in |-> Current, out |-> SyncAdd(Current, h)]
  /\ UNCHANGED <<fl, added, op, concVars>>

NextReset ==
  \/ CallClear
  \/ CallFill
  \/ \E h \in Hashes : CallAdd(h)
  \/ \E h \in Hashes : CallSyncAdd(h)

SpecReset == InitReset /\ [][NextReset]_vars

\* C20: Clear and Fill reset the filter to its two degenerate states,
\* whatever its shape and its history.  After Clear every bit is zero (the
\* filter is as New made it), Empty is true and Has is false for every
\* hash; after Fill every bit is one, Empty is false and Has is true for
\* every hash; neither changes k or the number of blocks.
C20_ClearAndFill ==
  /\ call.fn \in {"Clear", "Fill"} =>
       /\ call.out.k = call.in.k
       /\ len(call.out.b) = len(call.in.b)
       /\ DOMAIN call.out.b = DOMAIN call.in.b
  /\ call.fn = "Clear" =>
       /\ \A i \in DOMAIN call.out.b : \A j \in 0 .. blockWords - 1 :
            call.out.b[i][j] = {}
       /\ call.out = New(len(call.in.b) * BlockBits, call.in.k)
       /\ Empty(call.out)
       /\ \A h \in ResetHashes : ~Has(call.out, h) /\ ~SyncHas(call.out, h)
  /\ call.fn = "Fill" =>
       /\ \A i \in DOMAIN call.out.b : \A j \in 0 .. blockWords - 1 :
            call.out.b[i][j] = AllOnes
       /\ ~Empty(call.out)
       /\ \A h \in ResetHashes : Has(call.out, h) /\ SyncHas(call.out, h)

\* Clear has emptied a filter of several blocks that Fill had filled.
C20_Witness ==
  /\ call.fn = "Clear"
  /\ len(call.in.b) = MaxBlocks
  /\ call.in.k = MaxK
  /\ call.in = Fill(call.in)
  /\ ~Empty(call.in)
  /\ Empty(call.out)

\* ------------------------------------------------------------------------
\* SyncFilter.Empty while goroutines call SyncFilter.Add.  call holds the
\* goroutine inside Empty: the indices i and j of its loops, whether the
\* filter had no bit set when it made its first load (zero0), whether an
\* Add had returned before it was called (must), and, once it has returned,
\* whether no Add ran during the call (alone): none was running when it
\* began (quiet0) and none has begun since (calls0 is the number of calls
\* made before it).

\* The condition of Empty's outer loop with the last block left out.
emptyMoreSkipsLast(f, i) == i < len(f.b) - 1

\* The condition of Empty's outer loop, i < len(f.b).
emptyMore(f, i) == i < len(f.b)

\* The loop indices after the word at (i, j) was found zero: j++, and at
\* the end of the inner loop i++.
emptyAdvance(i, j) ==
  IF j + 1 < blockWords THEN <<i, j + 1>> ELSE <<i + 1, 0>>

\* A hash whose low half selects the last block of a SyncFilter, hA's
\* selecting the first.
hL == <<0, 7, W16 - 1, 3>>

EmptyHashes == {hA, hL}

\* The goroutines that call Add; the last goroutine is the one that calls
\* Empty.
Adders == Threads \ {NThreads}

EmptyRunning == call.fn = "Empty" /\ call.out = "running"

InitEmpty ==
  /\ SeqIdle
  /\ cf \in AtomicShapes
  /\ impl = "SyncFilter"
  /\ th = [t \in Threads |-> IdleThread]
  /\ done = {}
  /\ calls = 0
  /\ lin = {}
  /\ call = NoApiCall

\* A goroutine calls Empty.
EmptyBegin ==
  /\ call.fn = "none"
  /\ call' = [fn |-> "Empty",
              in |-> [i |-> 0, j |-> 0, zero0 |-> FALSE, must |-> done # {},
                      quiet0 |-> \A t \in Threads : th[t].pc = "idle",
                      calls0 |-> calls, alone |-> FALSE],
              out |-> IF emptyMore(cf, 0) THEN "running" ELSE "true"]
  /\ UNCHANGED <<fl, added, op, concVars>>

\* if atomic.LoadUint32(&f.b[i][j]) != 0 { return false }, then the loops
\* go on, and Empty returns true at their end.
EmptyLoad ==
  /\ EmptyRunning
  /\ LET i == call.in.i
         j == call.in.j
         first == i = 0 /\ j = 0
         z == IF first THEN Empty(cf) ELSE call.in.zero0
         nx == emptyAdvance(i, j)
         gone == [i |-> 0, j |-> 0, zero0 |-> z, must |-> call.in.must,
                  quiet0 |-> FALSE, calls0 |-> 0,
                  alone |-> call.in.quiet0 /\ calls = call.in.calls0]
     IN  call' =
           IF cf.b[i][j] # {}
           THEN [call EXCEPT !.in = gone, !.out = "false"]
           ELSE IF emptyMore(cf, nx[1])
           THEN [call EXCEPT !.in = [@ EXCEPT !.i = nx[1], !.j = nx[2],
                                              !.zero0 = z]]
           ELSE [call EXCEPT !.in = gone, !.out = "true"]
  /\ UNCHANGED <<fl, added, op, concVars>>

NextEmpty ==
  \/ \E t \in Adders, h \in EmptyHashes : AtomicBeginAdd(t, h)
  \/ \E t \in Adders : AtomicLoad(t)
  \/ \E t \in Adders : AtomicCas(t)
  \/ EmptyBegin
  \/ EmptyLoad

SpecEmpty == InitEmpty /\ [][NextEmpty]_vars

\* C21: Empty never reports a false "empty".  When Empty returns true while
\* goroutines call Add, no bit of the filter was set when Empty made its
\* first load; it returns false when an Add had returned before it was
\* called; when it returns false some bit is set; and with no Add running
\* during the call it returns true exactly when no bit is set.
C21_NoFalseEmpty ==
  call.fn = "Empty" =>
    /\ call.out = "true" => call.in.zero0 /\ ~call.in.must
    /\ call.out = "false" => ~Empty(cf)
    /\ (call.out # "running" /\ call.in.alone) =>
         (call.out = "true") = call.in.zero0

\* Empty has returned true although an Add that began during its loops has
\* set a bit since.
C21_Witness ==
  /\ call.fn = "Empty"
  /\ call.out = "true"
  /\ call.in.zero0
  /\ ~Empty(cf)
  /\ done # {}

\* ------------------------------------------------------------------------
\* Cardinality.  A float64 is modelled by its class: "NaN", "-Inf", "-fin"
\* (negative and finite), "0", "+fin" (positive and finite), "+Inf", and
\* "fin" for a finite sum of terms of both signs.  The terms of the sum are
\* at most log(BlockBits) / -log1M1Dblockbits < 3200 in size, so that a sum
\* of finite terms over at most 2^32 blocks is finite.

FloatClasses == {"NaN", "-Inf", "-fin", "0", "+fin", "+Inf", "fin"}

\* The product of two floats.
fmul(a, b) ==
  [x \in FloatClasses, y \in FloatClasses |->
     CASE x = "NaN" \/ y = "NaN" -> "NaN"
       [] x = "0" /\ y \in {"-Inf", "+Inf"} -> "NaN"
       [] y = "0" /\ x \in {"-Inf", "+Inf"} -> "NaN"
       [] x = "0" \/ y = "0" -> "0"
       [] x = "fin" /\ y \in {"-Inf", "+Inf"} -> "NaN"
       [] y = "fin" /\ x \in {"-Inf", "+Inf"} -> "NaN"
       [] x = "fin" \/ y = "fin" -> "fin"
       [] OTHER ->
            LET same == (x \in {"+fin", "+Inf"}) = (y \in {"+fin", "+Inf"})
                inf == x \in {"-Inf", "+Inf"} \/ y \in {"-Inf", "+Inf"}
            IN  IF same THEN (IF inf THEN "+Inf" ELSE "+fin")
                ELSE (IF inf THEN "-Inf" ELSE "-fin")][a, b]

\* The sum of two floats.
fadd(a, b) ==
  [x \in FloatClasses, y \in FloatClasses |->
     CASE x = "NaN" \/ y = "NaN" -> "NaN"
       [] x = "+Inf" -> IF y = "-Inf" THEN "NaN" ELSE "+Inf"
       [] x = "-Inf" -> IF y = "+Inf" THEN "NaN" ELSE "-Inf"
       [] y \in {"-Inf", "+Inf"} -> y
       [] x = "0" -> y
       [] y = "0" -> x
       [] x = y -> x
       [] OTHER -> "fin"][a, b]

\* The number of bits set in a word, bits.OnesCount32.
OnesCount32(x) == Cardinality(x)

\* onescount with the last word left out.
RECURSIVE onescountSkipsLast(_, _)
onescountSkipsLast(b, n) ==
  IF n = 0 \/ n = blockWords THEN 0
  ELSE onescountSkipsLast(b, n - 1) + OnesCount32(b[n - 1])

\* onescount: the sum of OnesCount32 over the first n words of b, the
\* method being the sum over all blockWords.
RECURSIVE onescount(_, _)
onescount(b, n) ==
  IF n = 0 THEN 0 ELSE onescount(b, n - 1) + OnesCount32(b[n - 1])

\* math.Log1p(-ones/BlockBits): log of 1 is zero, log of zero is -Inf.
log1pOnes(ones) ==
  IF ones = 0 THEN "0" ELSE IF ones < BlockBits THEN "-fin" ELSE "-Inf"

\* logProb0Inv := 1 / (k * log1M1Dblockbits) for k = f.k - 1, the constant
\* being negative; k = 0 makes the product -0 and the quotient -Inf.
logProb0Inv(k) ==
  IF k > 0 THEN "-fin" ELSE IF k = 0 THEN "-Inf" ELSE "+fin"

\* The loop of Cardinality over the first n blocks.
RECURSIVE cardinalitySum(_, _)
cardinalitySum(f, n) ==
  IF n = 0 THEN "0"
  ELSE LET ones == onescount(f.b[n - 1], blockWords)
           sum == cardinalitySum(f, n - 1)
       IN  IF ones = 0 THEN sum
           ELSE fadd(sum, fmul(log1pOnes(ones), logProb0Inv(f.k - 1)))

\* Cardinality estimates the number of distinct keys added to f.
FilterCardinality(f) == cardinalitySum(f, len(f.b))

\* The blocks the filters are made of: no bit, one bit, the bits of one or
\* of all the keys, all bits but one, all bits.
FullBlock == [w \in 0 .. blockWords - 1 |-> AllOnes]

BlockChoices ==
  {ZeroBlock,
   setbit(ZeroBlock, <<0, BlockBits - 1>>),
   Build(New(BlockBits, MaxK), {hA}).b[0],
   Build(New(BlockBits, MaxK), Hashes).b[0],
   [FullBlock EXCEPT ![blockWords - 1] = AllOnes \ {wordSize - 1}],
   FullBlock}

CardFilters ==
  UNION {{[b |-> bs, k |-> sh.k] : bs \in [DOMAIN sh.b -> BlockChoices]} :
         sh \in Shapes}

InitCard ==
  /\ SeqIdle
  /\ ConcIdle
  /\ call \in {[fn |-> "none", in |-> f, out |-> <<>>] : f \in CardFilters}

\* n := f.Cardinality(); f is what the call leaves of the filter.
CallCardinality ==
  /\ call.fn = "none"
  /\ call' = [fn |-> "Cardinality", in |-> call.in,
              out |-> [n |-> FilterCardinality(call.in), f |-> call.in]]
  /\ UNCHANGED <<fl, added, op, concVars>>

NextCard == CallCardinality

SpecCard == InitCard /\ [][NextCard]_vars

\* C22: Cardinality edge values.  Cardinality returns 0 when no bit of the
\* filter is set, +Inf when some block has all its BlockBits bits set,
\* whatever the other blocks hold, and a finite value that is not negative
\* in every other state; the filter is as it was.
C22_CardinalityEdges ==
  call.fn = "Cardinality" =>
    LET f == call.in
        full == \E i \in DOMAIN f.b : f.b[i] = FullBlock
    IN  /\ call.out.f = f
        /\ Empty(f) => call.out.n = "0"
        /\ full => call.out.n = "+Inf"
        /\ (~Empty(f) /\ ~full) => call.out.n = "+fin"

\* Cardinality has returned +Inf for a filter of several blocks of which
\* one is full, one has all bits but one and one has none.
C22_Witness ==
  /\ call.fn = "Cardinality"
  /\ call.out.n = "+Inf"
  /\ len(call.in.b) = MaxBlocks
  /\ call.in.b[0] = ZeroBlock
  /\ call.in.b[1] = FullBlock
  /\ call.in.b[MaxBlocks - 1] # FullBlock
  /\ ~Empty([b |-> <<call.in.b[MaxBlocks - 1]>>, k |-> 2])

\* ------------------------------------------------------------------------
\* FPRate, iteration by iteration, on the classes of its floats.  The loop
\* index is kept up to MaxIter; from there on it stands for every larger
\* index (at 2^53 i++ leaves a float64 as it is), for which Lgamma may have
\* overflowed to +Inf and Exp(-k/c) may have underflowed to zero.

MaxIter == 4

fneg(a) ==
  [x \in FloatClasses |->
     CASE x = "-Inf" -> "+Inf"
       [] x = "-fin" -> "+fin"
       [] x = "+fin" -> "-fin"
       [] x = "+Inf" -> "-Inf"
       [] OTHER -> x][a]

\* 1 / a, zero being +0.
finv(a) ==
  [x \in FloatClasses |->
     CASE x = "0" -> "+Inf"
       [] x \in {"-Inf", "+Inf"} -> "0"
       [] OTHER -> x][a]

fdiv(a, b) == fmul(a, finv(b))

fsub(a, b) == fadd(a, fneg(b))

\* math.Log.
flog(a) ==
  [x \in FloatClasses |->
     CASE x = "0" -> "-Inf"
       [] x = "+fin" -> "fin"
       [] x = "+Inf" -> "+Inf"
       [] OTHER -> "NaN"][a]

\* math.Exp: the classes its result may be in.  For a negative argument
\* the result may underflow to zero, for a positive one overflow to +Inf.
fexp(a) ==
  [x \in FloatClasses |->
     CASE x = "NaN" -> {"NaN"}
       [] x = "-Inf" -> {"0"}
       [] x = "+Inf" -> {"+Inf"}
       [] x = "0" -> {"+fin"}
       [] x = "-fin" -> {"0", "+fin"}
       [] x = "+fin" -> {"+fin", "+Inf"}
       [] OTHER -> {"0", "+fin", "+Inf"}][a]

\* float64(n) for an integer n >= 0.
float64of(n) == IF n = 0 THEN "0" ELSE "+fin"

\* Whether x < 1e-8 holds: every comparison with NaN is false, and a finite
\* positive x may be on either side.
less1em8(x) ==
  [y \in FloatClasses |->
     CASE y \in {"NaN", "+Inf"} -> {FALSE}
       [] y \in {"+fin", "fin"} -> {FALSE, TRUE}
       [] OTHER -> {TRUE}][x]

\* logFprBlock(c, k) == k * math.Log1p(-math.Exp(-k/c)), for k > 0 finite;
\* under tells that Exp underflows to zero.
logFprBlock(c, k, under) ==
  LET t == fdiv(k, c)
      l == CASE t = "NaN" -> "NaN"
             [] t = "0" -> "-Inf"
             [] t = "+Inf" -> "0"
             [] OTHER -> IF under THEN "0" ELSE "-fin"
  IN  fmul(k, l)

\* logPoisson(lambda, k) == k*math.Log(lambda) - lambda - lg, lg being
\* Lgamma(k + 1).
logPoisson(lambda, k, lg) ==
  fsub(fsub(fmul(k, flog(lambda)), lambda), lg)

\* Lgamma(i + 1): zero for i = 0 and i = 1, positive after.
lgamma1(i) == IF i <= 1 THEN "0" ELSE "+fin"

\* math.Exp(logPoisson(BlockBits/c, i) + logFprBlock(BlockBits/i, k)): the
\* classes it may be in.
fprTerm(c, k, i, lg, under) ==
  fexp(fadd(logPoisson(fdiv("+fin", c), float64of(i), lg),
            logFprBlock(fdiv("+fin", float64of(i)), k, under)))

\* One iteration of the loop of FPRate: for each class the term may be in,
\* the sum after it and whether the loop may go on or break.  ver tells the
\* two FPRate of the sources apart: "sum" adds the term and tests add/sum,
\* "prev" tests sum/prev - 1.
fprIterate(ver, c, k, i, sum, lg, under) ==
  {LET sum1 == fadd(sum, add)
       x == IF ver = "sum" THEN fdiv(add, sum1)
            ELSE fsub(fdiv(sum1, sum), "+fin")
   IN  [sum |-> sum1, breaks |-> less1em8(x)] :
     add \in fprTerm(c, k, i, lg, under)}

FPRateArgs ==
  [ver : {"sum", "prev"}, nkeys : {0, 1}, nbits : (NBitsChoices \ {0}) \cup {1},
   nhashes : 1 .. MaxK]

InitFPRate ==
  /\ SeqIdle
  /\ ConcIdle
  /\ call \in {[fn |-> "none", in |-> a, out |-> <<>>] : a \in FPRateArgs}

\* FPRate is called: c := float64(nbits) / float64(nkeys), k :=
\* float64(nhashes), sum is zero and the loop begins, at i = 1 (at i = 0 in
\* the older FPRate).
CallFPRate ==
  /\ call.fn = "none"
  /\ call' = [fn |-> "FPRate", in |-> call.in,
              out |-> [pc |-> "loop",
                       c |-> fdiv(float64of(call.in.nbits),
                                  float64of(call.in.nkeys)),
                       k |-> float64of(call.in.nhashes),
                       i |-> IF call.in.ver = "sum" THEN 1 ELSE 0,
                       sum |-> "0"]]
  /\ UNCHANGED <<fl, added, op, concVars>>

\* One iteration; the loop breaks and FPRate returns sum, or i++.
FPRateStep ==
  /\ call.fn = "FPRate"
  /\ call.out.pc = "loop"
  /\ LET o == call.out
         many == o.i >= MaxIter
     IN  \E lg \in {lgamma1(o.i)} \cup (IF many THEN {"+Inf"} ELSE {}),
            under \in {FALSE} \cup (IF many THEN {TRUE} ELSE {}) :
           \E r \in fprIterate(call.in.ver, o.c, o.k, o.i, o.sum, lg, under) :
               \E br \in r.breaks :
                 call' = [call EXCEPT !.out =
                   IF br THEN [o EXCEPT !.pc = "returned", !.sum = r.sum]
                   ELSE [o EXCEPT !.sum = r.sum,
                                  !.i = IF many THEN @ ELSE @ + 1]]
  /\ UNCHANGED <<fl, added, op, concVars>>

NextFPRate == CallFPRate \/ FPRateStep

SpecFPRate == InitFPRate /\ [][NextFPRate]_vars

\* The loop of FPRate goes on as long as it can.
SpecFPRateFair == SpecFPRate /\ WF_vars(CallFPRate) /\ WF_vars(FPRateStep)

\* C23: FPRate with zero keys.  For nbits > 0 and nhashes > 0 the call
\* FPRate(0, nbits, nhashes) terminates and returns exactly 0.
C23_ZeroKeysReturnsZero ==
  (call.fn = "FPRate" /\ call.in.nkeys = 0) ~>
    (call.fn = "FPRate" /\ call.out.pc = "returned" /\ call.out.sum = "0")

\* With zero keys the loop never breaks: the value its test compares with
\* 1e-8 is NaN in every iteration.
C23_ZeroKeysNeverReturns ==
  (call.fn = "FPRate" /\ call.in.nkeys = 0) => call.out.pc = "loop"

\* ------------------------------------------------------------------------
\* Block layout: a block of sixteen 32-bit words and one of eight 64-bit
\* words, the same bits set in both, and the bytes they are written as.

\* setbit on a block of eight uint64 words: bit i%64 of word (i/64)%8.
setbit64(b, i) ==
  [b EXCEPT ![(i[2] \div 64) % (BlockBits \div 64)] = @ \cup {i[2] % 64}]

ZeroBlock64 == [j \in Words64 |-> {}]

\* The words of a block in turn, each as the size bytes perm lists from the
\* least significant (0) on.
RECURSIVE wordsBytes(_, _, _, _)
wordsBytes(blk, n, w, perm) ==
  IF w = n THEN <<>>
  ELSE [j \in 1 .. Len(perm) |-> bitsValue(blk[w], 8 * perm[j], 8)] \o
       wordsBytes(blk, n, w + 1, perm)

\* binary.Write(h, binary.LittleEndian, b) for a block b of uint32.
littleEndian32(blk) == wordsBytes(blk, blockWords, 0, <<0, 1, 2, 3>>)

\* The same for a block of uint64, little-endian and big-endian.
littleEndian64(blk) ==
  wordsBytes(blk, BlockBits \div 64, 0, <<0, 1, 2, 3, 4, 5, 6, 7>>)

bigEndian64(blk) ==
  wordsBytes(blk, BlockBits \div 64, 0, <<7, 6, 5, 4, 3, 2, 1, 0>>)

\* The 64 bytes in which bit i mod 8 of byte (i mod BlockBits) div 8 is set
\* for the indices i of S.
layoutBytes(S) ==
  LET bits == {i[2] % BlockBits : i \in S}
  IN  [n \in 1 .. BlockBits \div 8 |-> bitsValue(bits, 8 * (n - 1), 8)]

\* The bit indices setbit is called with: those of TestBlockLayout, the
\* ends of the words of either width, and one beyond BlockBits.
LayoutIndices ==
  {<<0, 0>>, <<0, 1>>, <<0, 111>>, <<0, 499>>, <<0, 31>>, <<0, 32>>,
   <<0, 63>>, <<0, 64>>, <<0, 511>>, <<1, BlockBits + 8>>}

InitLayout ==
  /\ SeqIdle
  /\ ConcIdle
  /\ call = [fn |-> "block", in |-> {},
             out |-> [b |-> ZeroBlock, b64 |-> ZeroBlock64]]

\* b.setbit(i) on both blocks.
CallSetbit(i) ==
  /\ call.fn \in {"block", "setbit"}
  /\ Cardinality(call.in) <= MaxCalls
  /\ call' = [fn |-> "setbit", in |-> call.in \cup {i},
              out |-> [b |-> setbit(call.out.b, i),
                       b64 |-> setbit64(call.out.b64, i)]]
  /\ UNCHANGED <<fl, added, op, concVars>>

NextLayout == \E i \in LayoutIndices : CallSetbit(i)

SpecLayout == InitLayout /\ [][NextLayout]_vars

\* C24: word-width-independent block layout.  The bytes a block is written
\* as in the payload depend only on the bit indices set: the block of 32-bit
\* words, as SyncFilter.Write writes it, and the block of 64-bit words
\* written in the same byte order give the same 64 bytes, bit i in bit i mod
\* 8 of byte (i mod BlockBits) div 8.
C24_LayoutOfWrite ==
  call.fn = "setbit" =>
    /\ writeWords(call.out.b, 0) = layoutBytes(call.in)
    /\ bigEndian64(call.out.b64) = writeWords(call.out.b, 0)

\* The layout holds of the little-endian bytes TestBlockLayout hashes.
C24_LayoutLittleEndian ==
  call.fn = "setbit" =>
    /\ littleEndian32(call.out.b) = layoutBytes(call.in)
    /\ littleEndian64(call.out.b64) = layoutBytes(call.in)
    /\ call.out.b64 = block64(call.out.b)

\* ------------------------------------------------------------------------
\* Hashing: the block and the bit positions a method derives from a hash,
\* reducerange and doublehash on their own.

\* The methods that derive a block and positions from a hash.
Methods == {"Add", "AddAtomic", "Has", "SyncAdd", "SyncHas"}

\* The block index method m selects for hash h in f.
selected(m, f, h) ==
  IF m \in {"SyncAdd", "SyncHas"} THEN getblock(f, lo32(h))
  ELSE blockIndex(h, f.b)

\* The values among ps[j ..] that the loop of Has passes to getbit on
\* block blk: it returns at the first bit that is not set.
RECURSIVE tested(_, _, _)
tested(blk, ps, j) ==
  IF j > Len(ps) THEN <<>>
  ELSE IF ~getbit(blk, ps[j]) THEN <<ps[j]>>
  ELSE <<ps[j]>> \o tested(blk, ps, j + 1)

\* The uint32 values method m passes to setbit, setbitAtomic or getbit for
\* hash h in f, in the order of its loop.
used(m, f, h) ==
  LET ps == IF m \in {"SyncAdd", "SyncHas"} THEN syncPositions(h, f.k)
            ELSE positions(h, f.k)
  IN  IF m \in {"Has", "SyncHas"} THEN tested(f.b[selected(m, f, h)], ps, 1)
      ELSE ps

\* The filter method m leaves when called on f with hash h.
after(m, f, h) ==
  CASE m = "Add" -> Add(f, h)
    [] m = "AddAtomic" -> AddAtomic(f, h)
    [] m = "SyncAdd" -> SyncAdd(f, h)
    [] OTHER -> f

\* The halves of the hashes: zero, one, the ends of a block and of the
\* range, and values whose sums wrap around.
H1Choices == {<<0, 0>>, <<0, 1>>, <<0, BlockBits - 1>>, <<W16 \div 2, 0>>,
              <<W16 - 1, W16 - 1>>}

H2Choices == {<<0, 0>>, <<0, 1>>, <<0, 3>>, <<40000, 77>>,
              <<W16 - 1, W16 - 1>>}

HashChoices == {<<a[1], a[2], b[1], b[2]>> : a \in H1Choices, b \in H2Choices}

\* The arguments reducerange is called with on its own: n = 0 and n = 1,
\* the block counts of the shapes, and the largest values.
RangeChoices ==
  {<<0, n>> : n \in 0 .. MaxBlocks} \cup {<<1, 0>>, <<W16 - 1, W16 - 1>>}

\* The number of iterations of TestDoubleHashing.
DoubleHashIterations == 20

InitHash ==
  /\ SeqIdle
  /\ ConcIdle
  /\ call = NoApiCall

\* Method m is called with hash h on a new filter of shape sh.
CallMethod(m, sh, h) ==
  /\ call.fn = "none"
  /\ call' = [fn |-> m, in |-> [f |-> sh, h |-> h],
              out |-> [blk |-> selected(m, sh, h), ps |-> used(m, sh, h),
                       f |-> after(m, sh, h)]]
  /\ UNCHANGED <<fl, added, op, concVars>>

\* j := reducerange(i, n).
CallReducerange(i, n) ==
  /\ call.fn = "none"
  /\ call' = [fn |-> "reducerange", in |-> [i |-> i, n |-> n],
              out |-> reducerange32(i, n)]
  /\ UNCHANGED <<fl, added, op, concVars>>

\* The loop of TestDoubleHashing: h1, h2 = doublehash(h1, h2, i) for i = 0
\* .. 19, from h1 = h2 = 0; out is the pair after the iteration in.
CallDoublehash ==
  /\ call.fn \in {"none", "doublehash"}
  /\ LET i == IF call.fn = "doublehash" THEN call.in + 1 ELSE 0
         h == IF call.fn = "doublehash" THEN call.out ELSE <<u32(0), u32(0)>>
     IN  /\ i < DoubleHashIterations
         /\ call' = [fn |-> "doublehash", in |-> i,
                     out |-> doublehash(h[1], h[2], i)]
  /\ UNCHANGED <<fl, added, op, concVars>>

NextHash ==
  \/ \E m \in Methods, sh \in Shapes, h \in HashChoices : CallMethod(m, sh, h)
  \/ \E i \in H1Choices \cup H2Choices, n \in RangeChoices :
       CallReducerange(i, n)
  \/ CallDoublehash

SpecHash == InitHash /\ [][NextHash]_vars

\* The positions as C25 derives them: the first is h1, each following one
\* comes from the previous pair by h1' = h1 + h2, h2' = h2 + i, i counting
\* the iterations from zero.
RECURSIVE derived(_, _, _, _)
derived(h1, h2, i, n) ==
  IF n = 0 THEN <<>>
  ELSE <<h1>> \o derived(add32(h1, h2), add32(h2, u32(i)), i + 1, n - 1)

\* The bit of a block that a uint32 stands for.
bitIndex(i) == i[2] % BlockBits

\* C25: bit-position derivation.  Add, AddAtomic and Has use exactly k-1 bit
\* positions in the selected block, the first being h1 mod BlockBits and the
\* following ones derived by h1' = h1 + h2, h2' = h2 + i; Add and Has use
\* the same sequence.
C25_PositionsDerived ==
  call.fn \in Methods =>
    LET f == call.in.f
        h == call.in.h
        d == derived(hi32(h), lo32(h), 0, f.k - 1)
    IN  /\ Len(call.out.ps) = f.k - 1
        /\ \A j \in 1 .. f.k - 1 : bitIndex(call.out.ps[j]) = bitIndex(d[j])
        /\ call.out.ps = used("Has", f, h)

\* C26: robustness of enhanced double hashing to a zero second hash.  From
\* h1 = 0, h2 = 0, after every one of the iterations i = 0 .. 19 of
\* doublehash the value h2 is not zero.
C26_SecondHashNonZero ==
  call.fn = "doublehash" => call.out[2] # u32(0)

\* From the second iteration on h2 is not zero.
C26_NonZeroFromSecond ==
  (call.fn = "doublehash" /\ call.in >= 1) => call.out[2] # u32(0)

\* floor(i * n / 2^32) for a uint32 i and a small n, without the limbs of
\* the product.
floorMulShift(i, n) == (i[1] * n + (i[2] * n) \div W16) \div W16

\* C27: block selection.  Every method selects the block with index
\* reducerange(h1, n) = floor(h1 * n / 2^32), h1 being the high 32 bits of
\* the hash and n the block count; the index is at least 0 and below n for
\* n >= 1, and reducerange(i, 0) = 0.
C27_BlockSelected ==
  /\ call.fn \in Methods =>
       LET n == len(call.in.f.b)
       IN  /\ call.out.blk = reducerange(hi32(call.in.h), u32(n))
           /\ call.out.blk = floorMulShift(hi32(call.in.h), n)
           /\ call.out.blk >= 0
           /\ call.out.blk < n
  /\ call.fn = "reducerange" =>
       LET i == call.in.i
           n == call.in.n
           j == call.out
       IN  /\ n = u32(0) => j = u32(0)
           /\ n # u32(0) => (j[1] < n[1] \/ (j[1] = n[1] /\ j[2] < n[2]))
           /\ n[1] = 0 => j = u32(floorMulShift(i, n[2]))

\* C27 for the methods of Filter.
C27_FilterBlockSelected ==
  /\ call.fn \in {"Add", "AddAtomic", "Has"} =>
       LET n == len(call.in.f.b)
       IN  /\ call.out.blk = floorMulShift(hi32(call.in.h), n)
           /\ call.out.blk >= 0
           /\ call.out.blk < n
  /\ call.fn = "reducerange" =>
       LET i == call.in.i
           n == call.in.n
           j == call.out
       IN  /\ n = u32(0) => j = u32(0)
           /\ n # u32(0) => (j[1] < n[1] \/ (j[1] = n[1] /\ j[2] < n[2]))
           /\ n[1] = 0 => j = u32(floorMulShift(i, n[2]))

\* ------------------------------------------------------------------------
\* The frame of Add, AddAtomic and Has: the methods are called on filters
\* that hold keys already.

NextFrame ==
  \E m \in Methods, f \in ResetFilters, h \in Hashes : CallMethod(m, f, h)

SpecFrame == InitHash /\ [][NextFrame]_vars

\* The bits of g that are not bits of f.
newBits(f, g) ==
  {<<i, w, x>> \in (DOMAIN g.b) \X (0 .. blockWords - 1) \X AllOnes :
     x \in g.b[i][w] /\ x \notin f.b[i][w]}

\* C28: frame of insertion and query.  Add and AddAtomic clear no bit,
\* change at most k-1 bits, all of them in the block selected for the hash,
\* and leave k and the number of blocks as they were; Has changes nothing.
C28_Frame ==
  call.fn \in Methods =>
    LET f == call.in.f
        g == call.out.f
    IN  /\ g.k = f.k
        /\ DOMAIN g.b = DOMAIN f.b
        /\ \A i \in DOMAIN f.b : \A w \in 0 .. blockWords - 1 :
             f.b[i][w] \subseteq g.b[i][w]
        /\ Cardinality(newBits(f, g)) <= f.k - 1
        /\ \A n \in newBits(f, g) : n[1] = call.out.blk
        /\ call.fn \in {"Has", "SyncHas"} => g = f

\* Add has set a bit in the last block of a filter that held a key in
\* another block, another of its bits having been set before.
C28_Witness ==
  /\ call.fn = "Add"
  /\ call.in.f.k = MaxK
  /\ len(call.in.f.b) = MaxBlocks
  /\ call.out.blk = MaxBlocks - 1
  /\ Cardinality(newBits(call.in.f, call.out.f)) = 1
  /\ \E i \in DOMAIN call.in.f.b : i # call.out.blk /\ call.in.f.b[i] # ZeroBlock

\* ------------------------------------------------------------------------
\* The block selector on the filters New returns.

\* uint32(n) for a uint64 n: the low 32 bits.
uint32of64(n) == <<n[3], n[4]>>

\* The block Add selects in a filter of n blocks for a hash whose high half
\* is h1: reducerange(h1, uint32(len(f.b))).
blockOfLen(h1, n) == reducerange32(h1, uint32of64(n))

\* n - 1 for a uint64 n > 0.
pred64(n) == add64(n, <<W16 - 1, W16 - 1, W16 - 1, W16 - 1>>)

\* C29: every block is usable.  For every filter New returns, uint32 of
\* the block count is the block count, and the first and the last block are
\* each selected by some hash (no hash selects a block past the last).
C29_EveryBlockUsable ==
  (call.fn = "New" /\ ~call.out.panic) =>
    LET n == call.out.len
        last == pred64(n)
    IN  /\ <<0, 0>> \o uint32of64(n) = n
        /\ \E h1 \in H1Choices : <<0, 0>> \o blockOfLen(h1, n) = Zero64
        /\ \E h1 \in H1Choices : <<0, 0>> \o blockOfLen(h1, n) = last
        /\ \A h1 \in H1Choices : ~lt64(last, <<0, 0>> \o blockOfLen(h1, n))

\* C29 holds of the filters of fewer than MaxBits bits.
C29_UsableBelowMaxBits ==
  (call.fn = "New" /\ ~call.out.panic /\ lt64(NumBits(call.out.len), MaxBits)) =>
    LET n == call.out.len
        last == pred64(n)
    IN  /\ <<0, 0>> \o uint32of64(n) = n
        /\ \E h1 \in H1Choices : <<0, 0>> \o blockOfLen(h1, n) = Zero64
        /\ \E h1 \in H1Choices : <<0, 0>> \o blockOfLen(h1, n) = last
        /\ \A h1 \in H1Choices : ~lt64(last, <<0, 0>> \o blockOfLen(h1, n))

\* ------------------------------------------------------------------------
\* setbitAtomic under contention.  Each goroutine makes one call, of
\* AddAtomic (SyncFilter.Add) or of SyncFilter.Fill; of each goroutine the
\* calls of setbitAtomic are watched: the word its first load returned, the
\* compare-and-swaps that failed, whether one succeeded, and whether the
\* call returned.

\* No call of setbitAtomic made yet.
FreshCall ==
  [fresh |-> TRUE, blk |-> 0, i |-> <<0, 0>>, first |-> {}, fails |-> 0,
   wrote |-> FALSE, ret |-> FALSE]

\* The number of words Fill stores to: block by block, word by word.
fillWords(f) == len(f.b) * blockWords

\* The goroutines share a filter of one block, of every hash count.
SetbitShapes == {New(BlockBits, nh) : nh \in 2 .. MaxK}

\* call.in[t] is the number of words the Fill of goroutine t has stored
\* to, call.out[t] the setbitAtomic calls of goroutine t.
InitSetbit ==
  /\ SeqIdle
  /\ cf \in SetbitShapes
  /\ impl \in {"Filter", "SyncFilter"}
  /\ th = [t \in Threads |-> IdleThread]
  /\ done = {}
  /\ calls = 0
  /\ lin = {}
  /\ call = [fn |-> "setbitAtomic", in |-> [t \in Threads |-> 0],
             out |-> [t \in Threads |-> FreshCall]]

SetbitBeginAdd(t, h) ==
  /\ th[t].res = "none"
  /\ BeginAdd(t, h)
  /\ UNCHANGED <<lin, fl, added, op, call>>

\* The load of setbitAtomic: the first one of a call records the word, and
\* a load that shows the bit set is the return of the call.
SetbitLoad(t) ==
  /\ Load(t)
  /\ LET i == PosOf(t)[th[t].j]
         w == cf.b[BlkOf(t)][wordOf(i)]
         o == call.out[t]
         o1 == IF o.fresh \/ o.ret
               THEN [fresh |-> FALSE, blk |-> BlkOf(t), i |-> i, first |-> w,
                     fails |-> 0, wrote |-> FALSE, ret |-> FALSE]
               ELSE o
     IN  call' = [call EXCEPT !.out[t] = [o1 EXCEPT !.ret = bitOf(i) \in w]]
  /\ UNCHANGED <<lin, fl, added, op>>

\* The compare-and-swap of setbitAtomic: it failed when the word was not
\* the one loaded or the new word is not in place after it.
SetbitCas(t) ==
  /\ Cas(t)
  /\ LET i == PosOf(t)[th[t].j]
         cur == cf.b[BlkOf(t)][wordOf(i)]
         now == cf'.b[BlkOf(t)][wordOf(i)]
         failed == cur # th[t].old \/ now # th[t].old \cup {bitOf(i)}
     IN  call' = [call EXCEPT
                    !.out[t].fails = IF failed /\ @ <= wordSize THEN @ + 1 ELSE @,
                    !.out[t].wrote = @ \/ now # cur]
  /\ UNCHANGED <<lin, fl, added, op>>

\* Goroutine t calls SyncFilter.Fill.
SetbitBeginFill(t) ==
  /\ impl = "SyncFilter"
  /\ th[t].pc = "idle"
  /\ th[t].res = "none"
  /\ calls < MaxCalls
  /\ th' = [th EXCEPT ![t] = [IdleThread EXCEPT !.pc = "fill", !.op = "Fill"]]
  /\ calls' = calls + 1
  /\ UNCHANGED <<cf, impl, done, lin, fl, added, op, call>>

\* One iteration of the loops of SyncFilter.Fill:
\* atomic.StoreUint32(&f.b[i][j], ^uint32(0)); Fill returns after the last.
SetbitFillStep(t) ==
  /\ th[t].pc = "fill"
  /\ LET n == call.in[t]
     IN  /\ cf' = [cf EXCEPT !.b[n \div blockWords][n % blockWords] = AllOnes]
         /\ call' = [call EXCEPT !.in[t] = n + 1]
         /\ th' = [th EXCEPT ![t] = IF n + 1 = fillWords(cf)
                                    THEN Returned(@, "ok") ELSE @]
  /\ UNCHANGED <<impl, done, calls, lin, fl, added, op>>

\* The steps of goroutine t inside a call.
SetbitStep(t) == SetbitLoad(t) \/ SetbitCas(t) \/ SetbitFillStep(t)

\* Two goroutines contend: the first and the last.
Contenders == {1, NThreads}

NextSetbit ==
  \/ \E t \in Contenders, h \in Hashes : SetbitBeginAdd(t, h)
  \/ \E t \in Contenders : SetbitBeginFill(t)
  \/ \E t \in Contenders : SetbitLoad(t)
  \/ \E t \in Contenders : SetbitCas(t)
  \/ \E t \in Contenders : SetbitFillStep(t)

SpecSetbit == InitSetbit /\ [][NextSetbit]_vars

\* The scheduler runs every goroutine that can take a step.
SpecSetbitFair == SpecSetbit /\ \A t \in Contenders : WF_vars(SetbitStep(t))

\* The word a watched call of setbitAtomic works on.
wordNow(o) == cf.b[o.blk][wordOf(o.i)]

\* Of every call of setbitAtomic begun: each failed compare-and-swap is
\* paid for by a bit another goroutine set in the word since the first
\* load, so there are at most wordSize of them; the bit is set once the
\* call has returned or has written; a call whose first load showed the
\* bit has returned with no write and no failure; the bits of the first
\* load are still set.
SetbitBounded ==
  \A t \in Threads :
    LET o == call.out[t]
    IN  ~o.fresh =>
          /\ o.fails <= Cardinality(wordNow(o) \ o.first)
          /\ o.fails <= wordSize
          /\ (o.ret \/ o.wrote) => bitOf(o.i) \in wordNow(o)
          /\ bitOf(o.i) \in o.first => (o.ret /\ ~o.wrote /\ o.fails = 0)
          /\ o.first \subseteq wordNow(o)

\* No step clears a bit of any word.
NoBitCleared ==
  \A i \in DOMAIN cf.b : \A j \in 0 .. blockWords - 1 :
    cf.b[i][j] \subseteq cf'.b[i][j]

\* C30: bounded lock-free bit setting.  While only AddAtomic,
\* SyncFilter.Add and Fill run, every call of setbitAtomic has at most
\* wordSize failed compare-and-swaps, its bit is set when it returns, it
\* writes nothing when its first load shows the bit set, no step clears a
\* bit, and every AddAtomic call begun returns.
C30_BoundedSetbit ==
  /\ []SetbitBounded
  /\ [][NoBitCleared]_vars
  /\ \A t \in Threads : (th[t].pc \in {"load", "cas"}) ~> (th[t].pc = "idle")

\* A call of setbitAtomic returned after a failed compare-and-swap and a
\* successful one, and another returned from its first load.
C30_Witness ==
  \E t, u \in Threads :
    /\ call.fn = "setbitAtomic"
    /\ t # u
    /\ ~call.out[t].fresh /\ call.out[t].ret /\ call.out[t].fails >= 1
    /\ call.out[t].wrote
    /\ ~call.out[u].fresh /\ call.out[u].ret
    /\ bitOf(call.out[u].i) \in call.out[u].first

====
